---- MODULE Spec2Model ----
(***************************************************************************)
(* fastapi-topaz: the circuit breaker (circuit_breaker.py) and the         *)
(* check_decision flow of TopazConfig (dependencies.py) as state machines. *)
(*                                                                         *)
(* The breaker's methods hold one asyncio lock for their whole body and    *)
(* the body never suspends, so each method is one atomic action.           *)
(***************************************************************************)
EXTENDS Integers, Sequences, FiniteSets, TLC

VARIABLES
    cb,        \* the CircuitBreaker's internal state (_state, _failure_count, ...)
    now,       \* time.monotonic()
    last,      \* the last operation performed and what it returned
    streak,    \* history: record_failure calls since the last record_success / reset
    admitted,  \* history: should_allow_request calls answered True in this half-open episode
    okrun,     \* history: consecutive record_success calls received in this half-open episode
    opened_at, \* history: the time of the last transition to OPEN
    lock,      \* CircuitBreaker._lock is held
    fb,        \* one call of get_fallback_decision: its arguments and its outcome
    cfg,       \* the TopazConfig: which parts are configured, and how
    fresh,     \* TopazConfig.decision_cache._cache: key -> (value, expires_at)
    stale,     \* TopazConfig._stale_cache: key -> (value, cached_at)
    req,       \* the check_decision calls in progress: where each one is
    out,       \* the check_decision call that the last step completed, if any
    pool,      \* the ConnectionPool: its settings, _idle, _connections, _busy, _semaphore, flags
    task,      \* the callers of the pool: where each one is in acquire / release
    plast,     \* the last pool operation performed and what it did
    dc,        \* a DecisionCache: max_size and _cache in insertion order
    dhist,     \* history: the most recent set of each lookup
    dlast,     \* the last DecisionCache operation performed and what it returned
    mw,        \* one request in TopazMiddleware.__call__: what it is and how far it got
    fan,       \* the fan-out operations of two requests and TopazConfig._semaphore
    rg,        \* one call of the get_authorized_resource dependency
    pp         \* calls of _resolve_policy_path: the arguments and the results

breakerVars == <<cb, now, last, streak, admitted, okrun, opened_at, lock>>
historyVars == <<last, streak, admitted, okrun, opened_at, lock>>
checkVars == <<cfg, fresh, stale, req, out>>
poolVars == <<pool, task, plast>>
cacheVars == <<dc, dhist, dlast>>
restVars == <<fan, rg, pp>>
extVars == <<poolVars, cacheVars, mw, restVars>>
vars == <<cb, now, last, streak, admitted, okrun, opened_at, lock, fb, cfg, fresh, stale, req, out,
          pool, task, plast, dc, dhist, dlast, mw, fan, rg,
          pp>>

-----------------------------------------------------------------------------
(* Bounds of the model *)

FailureThreshold == 2       \* CircuitBreaker.failure_threshold of the modelled instance
SuccessThreshold == 2       \* CircuitBreaker.success_threshold
RecoveryTimeout == 2        \* CircuitBreaker.recovery_timeout, in clock ticks
HalfOpenMaxRequests == 2    \* CircuitBreaker.half_open_max_requests
MaxTime == 5                \* the clock stops here
MaxCheckTime == 2           \* the clock stops here while check_decision is exercised
MaxFailureCount == 4        \* record_failure is not called beyond this count
MaxPathLen == 2             \* policy paths have at most this many characters
MaxPatLen == 2              \* no_stale_for patterns have at most this many characters
CacheTtl == 1               \* DecisionCache.ttl_seconds, in clock ticks
StaleCacheTtl == 1          \* CircuitBreaker.stale_cache_ttl, in clock ticks

-----------------------------------------------------------------------------
(* CircuitState and the values of the Optional[float] fields *)

CLOSED == "closed"
OPEN == "open"
HALF_OPEN == "half_open"
CircuitState == {CLOSED, OPEN, HALF_OPEN}

None == 0 - 1

\* What an on_state_change callback does when invoked: no callback is
\* configured, it returns, or it raises an Exception.
CallbackOutcomes == {"unset", "ok", "raise"}

\* A CircuitBreaker after construction: the thresholds of the modelled
\* instance and the dataclass defaults of the internal fields.
InitialBreaker ==
    [ failure_threshold |-> FailureThreshold,
      success_threshold |-> SuccessThreshold,
      recovery_timeout |-> RecoveryTimeout,
      half_open_max_requests |-> HalfOpenMaxRequests,
      state |-> CLOSED,
      failure_count |-> 0,
      success_count |-> 0,
      last_failure_time |-> None,
      last_success_time |-> None,
      open_since |-> None,
      half_open_requests |-> 0 ]

\* The defaults of the dataclass fields failure_threshold, success_threshold
\* and half_open_max_requests.
DefaultFailureThreshold == 5
DefaultSuccessThreshold == 2
DefaultHalfOpenMaxRequests == 1

\* CircuitBreaker(): a breaker constructed with the default thresholds (its
\* recovery timeout, 30 seconds by default, is RecoveryTimeout clock ticks).
DefaultBreaker ==
    [InitialBreaker EXCEPT !.failure_threshold = DefaultFailureThreshold,
                           !.success_threshold = DefaultSuccessThreshold,
                           !.half_open_max_requests = DefaultHalfOpenMaxRequests]

-----------------------------------------------------------------------------
(* _transition_to *)

\* A mutation of CallbackEscapes: no try/except around the callback.
CallbackEscapesUncaught(cbo) == cbo = "raise"

\* Whether an exception of the on_state_change callback leaves _transition_to:
\* the call is wrapped in try / except Exception, so it never does.
CallbackEscapes(cbo) == FALSE

\* A mutation of TransitionTo: entering OPEN does not stamp _open_since anew
\* when it is already set.
TransitionToKeepsStamp(b, new_state, t, cbo) ==
    IF b.state = new_state
    THEN [b |-> b, called |-> FALSE, raised |-> FALSE]
    ELSE LET b1 == [b EXCEPT !.state = new_state]
             b2 == CASE new_state = OPEN ->
                          [b1 EXCEPT !.open_since = IF @ = None THEN t ELSE @,
                                     !.half_open_requests = 0]
                     [] new_state = CLOSED ->
                          [b1 EXCEPT !.failure_count = 0,
                                     !.success_count = 0,
                                     !.open_since = None]
                     [] new_state = HALF_OPEN ->
                          [b1 EXCEPT !.half_open_requests = 0]
         IN  [b |-> b2, called |-> cbo # "unset", raised |-> CallbackEscapes(cbo)]

\* _transition_to(new_state, reason) at time t; cbo is what the callback does.
\* Returns the new breaker state, whether the callback was invoked and whether
\* an exception left the method.
TransitionTo(b, new_state, t, cbo) ==
    IF b.state = new_state
    THEN [b |-> b, called |-> FALSE, raised |-> FALSE]
    ELSE LET b1 == [b EXCEPT !.state = new_state]
             b2 == CASE new_state = OPEN ->
                          [b1 EXCEPT !.open_since = t,
                                     !.half_open_requests = 0]
                     [] new_state = CLOSED ->
                          [b1 EXCEPT !.failure_count = 0,
                                     !.success_count = 0,
                                     !.open_since = None]
                     [] new_state = HALF_OPEN ->
                          [b1 EXCEPT !.half_open_requests = 0]
         IN  [b |-> b2, called |-> cbo # "unset", raised |-> CallbackEscapes(cbo)]

-----------------------------------------------------------------------------
(* record_success, record_failure, should_allow_request, reset             *)
(* Each returns [b: the state left behind, ret: the return value,          *)
(* exc: an exception left the method, called: the callback was invoked].   *)

\* A mutation of RecordSuccess: the failure count is not reset.
RecordSuccessKeepsFailures(b, t, cbo) ==
    LET b1 == [b EXCEPT !.last_success_time = t]
    IN  IF b1.state = HALF_OPEN
        THEN LET b2 == [b1 EXCEPT !.success_count = @ + 1]
             IN  IF b2.success_count >= b2.success_threshold
                 THEN LET tr == TransitionTo(b2, CLOSED, t, cbo)
                      IN  [b |-> tr.b, ret |-> TRUE, exc |-> tr.raised, called |-> tr.called]
                 ELSE [b |-> b2, ret |-> TRUE, exc |-> FALSE, called |-> FALSE]
        ELSE [b |-> b1, ret |-> TRUE, exc |-> FALSE, called |-> FALSE]

RecordSuccess(b, t, cbo) ==
    LET b1 == [b EXCEPT !.last_success_time = t, !.failure_count = 0]
    IN  IF b1.state = HALF_OPEN
        THEN LET b2 == [b1 EXCEPT !.success_count = @ + 1]
             IN  IF b2.success_count >= b2.success_threshold
                 THEN LET tr == TransitionTo(b2, CLOSED, t, cbo)
                      IN  [b |-> tr.b, ret |-> TRUE, exc |-> tr.raised, called |-> tr.called]
                 ELSE [b |-> b2, ret |-> TRUE, exc |-> FALSE, called |-> FALSE]
        ELSE [b |-> b1, ret |-> TRUE, exc |-> FALSE, called |-> FALSE]

\* A mutation of RecordFailure: the success count is not reset.
RecordFailureKeepsSuccesses(b, t, cbo) ==
    LET b1 == [b EXCEPT !.last_failure_time = t,
                        !.failure_count = @ + 1]
    IN  IF b1.state = CLOSED
        THEN IF b1.failure_count >= b1.failure_threshold
             THEN LET tr == TransitionTo(b1, OPEN, t, cbo)
                  IN  [b |-> tr.b, ret |-> TRUE, exc |-> tr.raised, called |-> tr.called]
             ELSE [b |-> b1, ret |-> TRUE, exc |-> FALSE, called |-> FALSE]
        ELSE IF b1.state = HALF_OPEN
             THEN LET tr == TransitionTo(b1, OPEN, t, cbo)
                  IN  [b |-> tr.b, ret |-> TRUE, exc |-> tr.raised, called |-> tr.called]
             ELSE [b |-> b1, ret |-> TRUE, exc |-> FALSE, called |-> FALSE]

RecordFailure(b, t, cbo) ==
    LET b1 == [b EXCEPT !.last_failure_time = t,
                        !.failure_count = @ + 1,
                        !.success_count = 0]
    IN  IF b1.state = CLOSED
        THEN IF b1.failure_count >= b1.failure_threshold
             THEN LET tr == TransitionTo(b1, OPEN, t, cbo)
                  IN  [b |-> tr.b, ret |-> TRUE, exc |-> tr.raised, called |-> tr.called]
             ELSE [b |-> b1, ret |-> TRUE, exc |-> FALSE, called |-> FALSE]
        ELSE IF b1.state = HALF_OPEN
             THEN LET tr == TransitionTo(b1, OPEN, t, cbo)
                  IN  [b |-> tr.b, ret |-> TRUE, exc |-> tr.raised, called |-> tr.called]
             ELSE [b |-> b1, ret |-> TRUE, exc |-> FALSE, called |-> FALSE]

\* A mutation of ShouldAllowRequest: the half-open limit is tested with <=.
ShouldAllowRequestOffByOne(b, t, cbo) ==
    CASE b.state = CLOSED ->
           [b |-> b, ret |-> TRUE, exc |-> FALSE, called |-> FALSE]
      [] b.state = OPEN ->
           IF b.open_since # None /\ t - b.open_since >= b.recovery_timeout
           THEN LET tr == TransitionTo(b, HALF_OPEN, t, cbo)
                IN  IF tr.raised
                    THEN [b |-> tr.b, ret |-> FALSE, exc |-> TRUE, called |-> tr.called]
                    ELSE [b |-> [tr.b EXCEPT !.half_open_requests = 1],
                          ret |-> TRUE, exc |-> FALSE, called |-> tr.called]
           ELSE [b |-> b, ret |-> FALSE, exc |-> FALSE, called |-> FALSE]
      [] b.state = HALF_OPEN ->
           IF b.half_open_requests <= b.half_open_max_requests
           THEN [b |-> [b EXCEPT !.half_open_requests = @ + 1],
                 ret |-> TRUE, exc |-> FALSE, called |-> FALSE]
           ELSE [b |-> b, ret |-> FALSE, exc |-> FALSE, called |-> FALSE]

\* A mutation of ShouldAllowRequest: the recovery timeout is tested with >.
ShouldAllowRequestLate(b, t, cbo) ==
    CASE b.state = CLOSED ->
           [b |-> b, ret |-> TRUE, exc |-> FALSE, called |-> FALSE]
      [] b.state = OPEN ->
           IF b.open_since # None /\ t - b.open_since > b.recovery_timeout
           THEN LET tr == TransitionTo(b, HALF_OPEN, t, cbo)
                IN  IF tr.raised
                    THEN [b |-> tr.b, ret |-> FALSE, exc |-> TRUE, called |-> tr.called]
                    ELSE [b |-> [tr.b EXCEPT !.half_open_requests = 1],
                          ret |-> TRUE, exc |-> FALSE, called |-> tr.called]
           ELSE [b |-> b, ret |-> FALSE, exc |-> FALSE, called |-> FALSE]
      [] b.state = HALF_OPEN ->
           IF b.half_open_requests < b.half_open_max_requests
           THEN [b |-> [b EXCEPT !.half_open_requests = @ + 1],
                 ret |-> TRUE, exc |-> FALSE, called |-> FALSE]
           ELSE [b |-> b, ret |-> FALSE, exc |-> FALSE, called |-> FALSE]

\* should_allow_request at time t.  An exception leaving _transition_to would
\* skip the assignment _half_open_requests = 1 and the return.
ShouldAllowRequest(b, t, cbo) ==
    CASE b.state = CLOSED ->
           [b |-> b, ret |-> TRUE, exc |-> FALSE, called |-> FALSE]
      [] b.state = OPEN ->
           IF b.open_since # None /\ t - b.open_since >= b.recovery_timeout
           THEN LET tr == TransitionTo(b, HALF_OPEN, t, cbo)
                IN  IF tr.raised
                    THEN [b |-> tr.b, ret |-> FALSE, exc |-> TRUE, called |-> tr.called]
                    ELSE [b |-> [tr.b EXCEPT !.half_open_requests = 1],
                          ret |-> TRUE, exc |-> FALSE, called |-> tr.called]
           ELSE [b |-> b, ret |-> FALSE, exc |-> FALSE, called |-> FALSE]
      [] b.state = HALF_OPEN ->
           IF b.half_open_requests < b.half_open_max_requests
           THEN [b |-> [b EXCEPT !.half_open_requests = @ + 1],
                 ret |-> TRUE, exc |-> FALSE, called |-> FALSE]
           ELSE [b |-> b, ret |-> FALSE, exc |-> FALSE, called |-> FALSE]

\* A mutation of Reset: the assignments after _transition_to are left out.
ResetTransitionOnly(b, t, cbo) ==
    LET tr == TransitionTo(b, CLOSED, t, cbo)
    IN  [b |-> tr.b, ret |-> ~tr.raised, exc |-> tr.raised, called |-> tr.called]

\* reset at time t.  An exception leaving _transition_to would skip the
\* assignments that follow it.
Reset(b, t, cbo) ==
    LET tr == TransitionTo(b, CLOSED, t, cbo)
    IN  IF tr.raised
        THEN [b |-> tr.b, ret |-> FALSE, exc |-> TRUE, called |-> tr.called]
        ELSE [b |-> [tr.b EXCEPT !.failure_count = 0,
                                 !.success_count = 0,
                                 !.last_failure_time = None,
                                 !.last_success_time = None,
                                 !.open_since = None,
                                 !.half_open_requests = 0],
              ret |-> TRUE, exc |-> FALSE, called |-> tr.called]

-----------------------------------------------------------------------------
(* get_fallback_decision                                                   *)
(* A bool is "True" or "False", an absent Optional[bool] is NoDecision, a  *)
(* string is a tuple of its characters.                                    *)

NoDecision == "None"
Decisions == {"True", "False"}
StaleValues == Decisions \cup {NoDecision}

\* The fallback strategies: the four the code knows, a string it does not
\* know, and a callable.
Strategies == {"deny", "allow", "cache_then_deny", "cache_then_allow", "bogus", "custom"}

\* What a custom fallback callable does with the cached_decision it receives:
\* it answers True, answers False, answers the cached decision if there is one
\* and False otherwise, or raises.
CustomBehaviours == {"allow", "deny", "echo", "ConnectionError", "ValueError"}

\* The exceptions of the model; NoError is no exception.
NoError == "none"
Exceptions == {"ConnectionError", "ValueError"}

\* fnmatch.fnmatch(name, pat) on POSIX: "*" matches any run of characters,
\* "?" any one character, every other character itself; the whole name must
\* match.
RECURSIVE FnMatch(_, _)
FnMatch(name, pat) ==
    IF pat = << >> THEN name = << >>
    ELSE IF Head(pat) = "*"
         THEN FnMatch(name, Tail(pat)) \/ (name # << >> /\ FnMatch(Tail(name), pat))
         ELSE /\ name # << >>
              /\ (Head(pat) = "?" \/ Head(pat) = Head(name))
              /\ FnMatch(Tail(name), Tail(pat))

\* A mutation of NoStaleFilter: only the first pattern is consulted.
NoStaleFilterFirstOnly(no_stale_for, policy_path, cached_decision) ==
    IF cached_decision # NoDecision /\ no_stale_for # << >>
    THEN IF FnMatch(policy_path, no_stale_for[1])
         THEN NoDecision
         ELSE cached_decision
    ELSE cached_decision

\* The no_stale_for loop: the cached decision is dropped when any pattern
\* matches the policy path.  no_stale_for = None and [] are both << >>.
NoStaleFilter(no_stale_for, policy_path, cached_decision) ==
    IF cached_decision # NoDecision /\ no_stale_for # << >>
    THEN IF \E i \in 1..Len(no_stale_for) : FnMatch(policy_path, no_stale_for[i])
         THEN NoDecision
         ELSE cached_decision
    ELSE cached_decision

\* The call of a custom fallback with the cached decision c.
CustomFallback(behaviour, c) ==
    CASE behaviour = "allow" -> [ret |-> "True", exc |-> NoError]
      [] behaviour = "deny" -> [ret |-> "False", exc |-> NoError]
      [] behaviour = "echo" -> [ret |-> IF c # NoDecision THEN c ELSE "False", exc |-> NoError]
      [] OTHER -> [ret |-> NoDecision, exc |-> behaviour]

\* A mutation of StrategyDecision: cache_then_allow denies without a cached decision.
StrategyDecisionDenyDefault(strategy, c) ==
    CASE strategy = "cache_then_deny" -> IF c # NoDecision THEN c ELSE "False"
      [] strategy = "cache_then_allow" -> IF c # NoDecision THEN c ELSE "False"
      [] strategy = "deny" -> "False"
      [] strategy = "allow" -> "True"
      [] OTHER -> "False"

\* The dispatch on a string strategy, c the cached decision after filtering.
StrategyDecision(strategy, c) ==
    CASE strategy = "cache_then_deny" -> IF c # NoDecision THEN c ELSE "False"
      [] strategy = "cache_then_allow" -> IF c # NoDecision THEN c ELSE "True"
      [] strategy = "deny" -> "False"
      [] strategy = "allow" -> "True"
      [] OTHER -> "False"

\* get_fallback_decision.  Returns [ret: the decision, exc: the exception
\* that left the method, received: the cached decision handed to the custom
\* callable (NoDecision when there is none or none was called)].
GetFallbackDecision(fallback, no_stale_for, policy_path, cached_decision, behaviour) ==
    LET c == NoStaleFilter(no_stale_for, policy_path, cached_decision)
    IN  IF fallback = "custom"
        THEN LET r == CustomFallback(behaviour, c)
             IN  [ret |-> r.ret, exc |-> r.exc, received |-> c, custom |-> TRUE]
        ELSE [ret |-> StrategyDecision(fallback, c), exc |-> NoError,
              received |-> NoDecision, custom |-> FALSE]

-----------------------------------------------------------------------------
(* TopazConfig: the cache keys, the two caches, the fallback procedure     *)

\* is_failure_exception with the default failure_exceptions
\* [ConnectionError, TimeoutError, OSError].
IsFailureException(e) == e \in {"ConnectionError", "TimeoutError", "OSError"}

\* _make_key / _make_stale_cache_key: the digest of
\* f"{identity_value}:{policy_path}:{decision}:{ctx_str}", the digest taken
\* as injective, so the key is the string itself.
MakeKey(identity_value, policy_path, decision, ctx_str) ==
    identity_value \o <<":">> \o policy_path \o <<":">> \o decision \o <<":">> \o ctx_str

\* No entry under a key.
NoEntry == [value |-> NoDecision, at |-> None]

\* DecisionCache.get at time t: [value, fr: the cache afterwards].
CacheGet(fr, key, t) ==
    IF fr[key].value = NoDecision
    THEN [value |-> NoDecision, fr |-> fr]
    ELSE IF t > fr[key].at
         THEN [value |-> NoDecision, fr |-> [fr EXCEPT ![key] = NoEntry]]
         ELSE [value |-> fr[key].value, fr |-> fr]

\* DecisionCache.set at time t, for a cache that is not full (max_size is
\* 1000 and the model has fewer keys).
CacheSet(fr, key, value, t) ==
    [fr EXCEPT ![key] = [value |-> value, at |-> t + CacheTtl]]

\* _get_stale_cached at time t: [value, st: the stale cache afterwards].
GetStaleCached(c, st, key, t) ==
    IF ~c.circuit_breaker \/ ~c.serve_stale_cache
    THEN [value |-> NoDecision, st |-> st]
    ELSE IF st[key].value = NoDecision
         THEN [value |-> NoDecision, st |-> st]
         ELSE IF t - st[key].at > StaleCacheTtl
              THEN [value |-> NoDecision, st |-> [st EXCEPT ![key] = NoEntry]]
              ELSE [value |-> st[key].value, st |-> st]

\* _set_stale_cached at time t (the size limit of 10000 is never reached).
SetStaleCached(c, st, key, value, t) ==
    IF ~c.circuit_breaker
    THEN st
    ELSE [st EXCEPT ![key] = [value |-> value, at |-> t]]

\* Whether an exception of the on_fallback callback leaves check_decision's
\* call of it: the call is wrapped in try / except Exception.
OnFallbackEscapes(ofo) == FALSE

\* The fallback procedure of check_decision: _get_stale_cached,
\* get_fallback_decision, then the on_fallback callback.  behaviour is what a
\* custom fallback callable does, ofo what the on_fallback callback does.
FallbackProcedure(c, st, policy_path, key, t, behaviour, ofo) ==
    LET g == GetStaleCached(c, st, key, t)
        f == GetFallbackDecision(c.fallback, c.no_stale_for, policy_path, g.value, behaviour)
    IN  [ st |-> g.st,
          stale_cached |-> g.value,
          received |-> f.received,
          ret |-> IF f.exc = NoError /\ ~OnFallbackEscapes(ofo) THEN f.ret ELSE NoDecision,
          exc |-> IF f.exc # NoError THEN f.exc
                  ELSE IF ofo = "raise" /\ OnFallbackEscapes(ofo) THEN "ValueError"
                  ELSE NoError,
          custom_raised |-> f.exc # NoError,
          on_fallback_raised |-> f.exc = NoError /\ ofo = "raise" ]

\* A mutation of ExceptClause: the fallback decision is stored in the stale
\* cache.
ExceptClauseCachesFallback(c, b, st, policy_path, key, t, e, behaviour, ofo, cbo) ==
    IF c.circuit_breaker /\ IsFailureException(e)
    THEN LET rf == RecordFailure(b, t, cbo)
             fp == FallbackProcedure(c, st, policy_path, key, t, behaviour, ofo)
         IN  [b |-> rf.b,
              st |-> IF fp.ret = NoDecision THEN fp.st
                     ELSE SetStaleCached(c, fp.st, key, fp.ret, t),
              ret |-> fp.ret, exc |-> fp.exc,
              fails |-> 1, fallback |-> TRUE, fp |-> fp]
    ELSE [b |-> b, st |-> st, ret |-> NoDecision, exc |-> e,
          fails |-> 0, fallback |-> FALSE,
          fp |-> [st |-> st, stale_cached |-> NoDecision, received |-> NoDecision,
                  ret |-> NoDecision, exc |-> NoError,
                  custom_raised |-> FALSE, on_fallback_raised |-> FALSE]]

\* The except clause of check_decision for the exception e raised in the try
\* block: [b, st: the breaker and stale cache afterwards, ret, exc: what
\* check_decision returns or raises, fails: record_failure calls made,
\* fp: the fallback procedure run, if any].
ExceptClause(c, b, st, policy_path, key, t, e, behaviour, ofo, cbo) ==
    IF c.circuit_breaker /\ IsFailureException(e)
    THEN LET rf == RecordFailure(b, t, cbo)
             fp == FallbackProcedure(c, st, policy_path, key, t, behaviour, ofo)
         IN  [b |-> rf.b, st |-> fp.st, ret |-> fp.ret, exc |-> fp.exc,
              fails |-> 1, fallback |-> TRUE, fp |-> fp]
    ELSE [b |-> b, st |-> st, ret |-> NoDecision, exc |-> e,
          fails |-> 0, fallback |-> FALSE,
          fp |-> [st |-> st, stale_cached |-> NoDecision, received |-> NoDecision,
                  ret |-> NoDecision, exc |-> NoError,
                  custom_raised |-> FALSE, on_fallback_raised |-> FALSE]]

-----------------------------------------------------------------------------
(* The breaker driven through its public methods, in any order *)

\* The history of one method call whose outcome is r.
Stamp(name, r, cbo) ==
    [op |-> name, ret |-> r.ret, exc |-> r.exc, called |-> r.called, cbo |-> cbo]

\* The half-open episode count after a call that took the breaker from b to r.b.
Admitted(b, r, name) ==
    IF r.b.state # HALF_OPEN THEN 0
    ELSE IF b.state # HALF_OPEN THEN (IF r.ret THEN 1 ELSE 0)
    ELSE IF name = "should_allow_request" /\ r.ret /\ ~r.exc THEN admitted + 1
    ELSE admitted

\* The run of successes of the half-open episode after a call.
OkRun(b, r, name) ==
    IF b.state # HALF_OPEN \/ r.b.state # HALF_OPEN THEN 0
    ELSE IF name = "record_success" THEN okrun + 1
    ELSE okrun

\* The time of the last transition to OPEN after a call at time t.
OpenedAt(b, r, t) ==
    IF b.state # OPEN /\ r.b.state = OPEN THEN t ELSE opened_at

\* The failure count beyond which the model records no further failure:
\* as far above the breaker's threshold as MaxFailureCount is above
\* FailureThreshold.
FailureCap(b) == b.failure_threshold + (MaxFailureCount - FailureThreshold)

InitBreaker ==
    /\ cb = InitialBreaker
    /\ okrun = 0
    /\ opened_at = None
    /\ lock = FALSE
    /\ now = 0
    /\ last = [op |-> "init", ret |-> FALSE, exc |-> FALSE, called |-> FALSE, cbo |-> "unset"]
    /\ streak = 0
    /\ admitted = 0

DoRecordSuccess ==
    /\ ~lock
    /\ \E cbo \in CallbackOutcomes :
        LET r == RecordSuccess(cb, now, cbo)
        IN  /\ cb' = r.b
            /\ last' = Stamp("record_success", r, cbo)
            /\ streak' = 0
            /\ admitted' = Admitted(cb, r, "record_success")
            /\ okrun' = OkRun(cb, r, "record_success")
            /\ opened_at' = OpenedAt(cb, r, now)
            /\ lock' = FALSE
            /\ UNCHANGED <<now, fb, checkVars, extVars>>

DoRecordFailure ==
    /\ ~lock
    /\ cb.failure_count < MaxFailureCount
    /\ \E cbo \in CallbackOutcomes :
        LET r == RecordFailure(cb, now, cbo)
        IN  /\ cb' = r.b
            /\ last' = Stamp("record_failure", r, cbo)
            /\ streak' = streak + 1
            /\ admitted' = Admitted(cb, r, "record_failure")
            /\ okrun' = OkRun(cb, r, "record_failure")
            /\ opened_at' = OpenedAt(cb, r, now)
            /\ lock' = FALSE
            /\ UNCHANGED <<now, fb, checkVars, extVars>>

DoShouldAllowRequest ==
    /\ ~lock
    /\ \E cbo \in CallbackOutcomes :
        LET r == ShouldAllowRequest(cb, now, cbo)
        IN  /\ cb' = r.b
            /\ last' = Stamp("should_allow_request", r, cbo)
            /\ admitted' = Admitted(cb, r, "should_allow_request")
            /\ okrun' = OkRun(cb, r, "should_allow_request")
            /\ opened_at' = OpenedAt(cb, r, now)
            /\ lock' = FALSE
            /\ UNCHANGED <<now, streak, fb, checkVars, extVars>>

DoReset ==
    /\ ~lock
    /\ \E cbo \in CallbackOutcomes :
        LET r == Reset(cb, now, cbo)
        IN  /\ cb' = r.b
            /\ last' = Stamp("reset", r, cbo)
            /\ streak' = 0
            /\ admitted' = Admitted(cb, r, "reset")
            /\ okrun' = OkRun(cb, r, "reset")
            /\ opened_at' = OpenedAt(cb, r, now)
            /\ lock' = FALSE
            /\ UNCHANGED <<now, fb, checkVars, extVars>>

Tick ==
    /\ now < MaxTime
    /\ now' = now + 1
    /\ last' = [op |-> "tick", ret |-> FALSE, exc |-> FALSE, called |-> FALSE, cbo |-> "unset"]
    /\ UNCHANGED <<cb, streak, admitted, okrun, opened_at, lock, fb, checkVars, extVars>>

-----------------------------------------------------------------------------
(* One call of get_fallback_decision on arguments drawn from bounded sets *)

SeqsUpTo(S, n) == UNION {[1..k -> S] : k \in 0..n}

PathChars == {"a", "."}
PatternChars == PathChars \cup {"*", "?"}
Paths == SeqsUpTo(PathChars, MaxPathLen)
Patterns == SeqsUpTo(PatternChars, MaxPatLen)

\* The no_stale_for lists: unset, one pattern, or a pattern followed by a
\* literal or by a wildcard.
NoStaleLists ==
    {<< >>} \cup {<<p>> : p \in Patterns}
            \cup {<<p, q>> : p \in Patterns, q \in {<<"a">>, <<"*">>}}

NoOutcome == [ret |-> NoDecision, exc |-> NoError, received |-> NoDecision, custom |-> FALSE]

NoFallbackCall ==
    [fallback |-> "deny", no_stale_for |-> << >>, policy_path |-> << >>,
     cached_decision |-> NoDecision, behaviour |-> "deny", done |-> TRUE, out |-> NoOutcome]

InitFallback ==
    \E s \in Strategies, l \in NoStaleLists, p \in Paths, c \in StaleValues,
       b \in CustomBehaviours :
        /\ s # "custom" => b = "deny"
        /\ fb = [fallback |-> s, no_stale_for |-> l, policy_path |-> p,
                 cached_decision |-> c, behaviour |-> b, done |-> FALSE,
                 out |-> NoOutcome]

ApplyFallback ==
    /\ ~fb.done
    /\ fb' = [fb EXCEPT !.done = TRUE,
                        !.out = GetFallbackDecision(fb.fallback, fb.no_stale_for,
                                    fb.policy_path, fb.cached_decision, fb.behaviour)]
    /\ UNCHANGED <<breakerVars, checkVars, extVars>>

-----------------------------------------------------------------------------
(* check_decision.  A call runs without suspending from its start to the   *)
(* authorizer call (or to its return, when it makes none), and from the    *)
(* authorizer's answer to its return; calls interleave in between.         *)

Requests == {"r1", "r2"}

\* The requests of the model: one identity and decision, no resource
\* context, two policy paths.
IdentityValue == <<"u">>
DecisionName == <<"d">>
NoContext == << >>
CheckPaths == {<<"a", ".">>, <<".", "a">>}
Keys == {MakeKey(IdentityValue, p, DecisionName, NoContext) : p \in CheckPaths}
KeyOf(p) == MakeKey(IdentityValue, p, DecisionName, NoContext)

\* The configurations of the model: a custom fallback callable with a fresh
\* cache, two string strategies without one (one of them not serving stale
\* entries), and no breaker with and without a fresh cache.  Without a
\* breaker its settings are not read.  connection_pool says whether a
\* ConnectionPool was handed to the constructor.
AdminPattern == <<"a", "*">>

CheckConfigs ==
    { [circuit_breaker |-> TRUE, decision_cache |-> TRUE, fallback |-> "custom",
       no_stale_for |-> <<AdminPattern>>, serve_stale_cache |-> TRUE,
       connection_pool |-> TRUE],
      [circuit_breaker |-> TRUE, decision_cache |-> FALSE, fallback |-> "cache_then_deny",
       no_stale_for |-> <<AdminPattern>>, serve_stale_cache |-> TRUE,
       connection_pool |-> TRUE],
      [circuit_breaker |-> TRUE, decision_cache |-> FALSE, fallback |-> "cache_then_allow",
       no_stale_for |-> << >>, serve_stale_cache |-> FALSE,
       connection_pool |-> FALSE],
      [circuit_breaker |-> FALSE, decision_cache |-> TRUE, fallback |-> "cache_then_deny",
       no_stale_for |-> << >>, serve_stale_cache |-> TRUE,
       connection_pool |-> TRUE],
      [circuit_breaker |-> FALSE, decision_cache |-> FALSE, fallback |-> "cache_then_deny",
       no_stale_for |-> << >>, serve_stale_cache |-> TRUE,
       connection_pool |-> FALSE] }

Behaviours(c) == IF c.fallback = "custom" THEN CustomBehaviours ELSE {"deny"}

\* What the on_fallback callback does when check_decision invokes it (a
\* callback that is not configured leaves the same state as one that returns).
OnFallbackOutcomes == {"ok", "raise"}

\* The on_state_change callback is not configured where check_decision is
\* exercised.
NoStateChangeCallback == "unset"

\* A check_decision call that has not started (pc is "idle"; "calling" while
\* the authorizer call is in flight, "done" once it has returned or raised),
\* with the history of what the call did: hit (answered from the fresh cache), asked / denied
\* (should_allow_request was consulted / answered False), calls (authorizer
\* calls issued), succ / fails (record_success / record_failure calls made),
\* err (what the authorizer call raised), fallbacks (fallback procedures
\* run), stale_cached / received (the stale value fetched / handed to a
\* custom callable by the last of them), custom_raised / on_fallback_raised,
\* answer (what the authorizer answered), episode (the _open_since of the
\* half-open episode in which the call was admitted, None for a call admitted
\* while CLOSED or not admitted), acquired / constructed (connections taken from the pool / AuthorizerClient
\* objects constructed for the authorizer call).
IdleRequest ==
    [ pc |-> "idle", path |-> << >>, ret |-> NoDecision, exc |-> NoError,
      hit |-> FALSE, asked |-> FALSE, denied |-> FALSE,
      calls |-> 0, succ |-> 0, fails |-> 0, err |-> NoError,
      acquired |-> 0, constructed |-> 0, answer |-> NoDecision, episode |-> None,
      fallbacks |-> 0, stale_cached |-> NoDecision, received |-> NoDecision,
      custom_raised |-> FALSE, on_fallback_raised |-> FALSE ]

\* create_client for the configuration c: the identity provider is called
\* and an AuthorizerClient constructed from the authorizer options; the
\* configuration's connection pool is not read.
CreateClient(c) == [acquired |-> 0, constructed |-> 1]

\* check_decision at its authorizer call: create_client, then the request
\* is sent and the call suspends.
IssueCall(rq) ==
    LET cc == CreateClient(cfg)
    IN  [rq EXCEPT !.pc = "calling", !.calls = 1,
                   !.acquired = cc.acquired, !.constructed = cc.constructed]

\* check_decision after should_allow_request answered False: the fallback
\* procedure inside the try block and, when it raises, the except clause.
DeniedOutcomes(rq, key, b, fr, cbo) ==
    UNION {
        LET fp == FallbackProcedure(cfg, stale, rq.path, key, now, beh, ofo)
            r1 == [rq EXCEPT !.asked = TRUE, !.denied = TRUE, !.fallbacks = 1,
                             !.stale_cached = fp.stale_cached,
                             !.received = fp.received,
                             !.custom_raised = fp.custom_raised,
                             !.on_fallback_raised = fp.on_fallback_raised]
        IN  IF fp.exc = NoError
            THEN {[b |-> b, fr |-> fr, st |-> fp.st,
                   rq |-> [r1 EXCEPT !.pc = "done", !.ret = fp.ret]]}
            ELSE {LET ec == ExceptClause(cfg, b, fp.st, rq.path, key, now,
                                         fp.exc, beh2, ofo2, cbo)
                  IN  [b |-> ec.b, fr |-> fr, st |-> ec.st,
                       rq |-> [r1 EXCEPT
                                 !.pc = "done", !.ret = ec.ret, !.exc = ec.exc,
                                 !.fails = ec.fails,
                                 !.fallbacks = IF ec.fallback THEN 2 ELSE 1,
                                 !.stale_cached = IF ec.fallback
                                                  THEN ec.fp.stale_cached ELSE @,
                                 !.received = IF ec.fallback THEN ec.fp.received ELSE @,
                                 !.on_fallback_raised = ec.fp.on_fallback_raised]]
                  : beh2 \in Behaviours(cfg), ofo2 \in OnFallbackOutcomes}
        : beh \in Behaviours(cfg), ofo \in OnFallbackOutcomes }

\* The half-open episode a breaker left in state b by should_allow_request
\* is in: episodes are told apart by the time of the opening before them.
Episode(b) == IF b.state = HALF_OPEN THEN b.open_since ELSE None

\* A mutation of StartOutcomes: the breaker's gate is consulted before the
\* fresh cache.
StartOutcomesGateFirst(p) ==
    LET key == KeyOf(p)
        rq == [IdleRequest EXCEPT !.path = p]
        sar == IF cfg.circuit_breaker
               THEN ShouldAllowRequest(cb, now, NoStateChangeCallback)
               ELSE [b |-> cb, ret |-> TRUE]
        rq1 == [rq EXCEPT !.asked = cfg.circuit_breaker,
                          !.episode = IF cfg.circuit_breaker THEN Episode(sar.b) ELSE None]
    IN  IF ~sar.ret
        THEN DeniedOutcomes(rq, key, sar.b, fresh, NoStateChangeCallback)
        ELSE LET g == IF cfg.decision_cache
                      THEN CacheGet(fresh, key, now)
                      ELSE [value |-> NoDecision, fr |-> fresh]
             IN  IF g.value # NoDecision
                 THEN {[b |-> sar.b, fr |-> g.fr, st |-> stale,
                        rq |-> [rq1 EXCEPT !.pc = "done", !.ret = g.value, !.hit = TRUE]]}
                 ELSE {[b |-> sar.b, fr |-> g.fr, st |-> stale, rq |-> IssueCall(rq1)]}

\* check_decision from its start to its first suspension, for policy path p:
\* the fresh cache, the breaker's gate, the fallback when the gate is shut.
StartOutcomes(p) ==
    LET key == KeyOf(p)
        g == IF cfg.decision_cache
             THEN CacheGet(fresh, key, now)
             ELSE [value |-> NoDecision, fr |-> fresh]
        rq == [IdleRequest EXCEPT !.path = p]
    IN  IF g.value # NoDecision
        THEN {[b |-> cb, fr |-> g.fr, st |-> stale,
               rq |-> [rq EXCEPT !.pc = "done", !.ret = g.value, !.hit = TRUE]]}
        ELSE IF ~cfg.circuit_breaker
        THEN {[b |-> cb, fr |-> g.fr, st |-> stale, rq |-> IssueCall(rq)]}
        ELSE LET sar == ShouldAllowRequest(cb, now, NoStateChangeCallback)
             IN  IF sar.ret
                 THEN {[b |-> sar.b, fr |-> g.fr, st |-> stale,
                        rq |-> IssueCall([rq EXCEPT !.asked = TRUE,
                                                    !.episode = Episode(sar.b)])]}
                 ELSE DeniedOutcomes(rq, key, sar.b, g.fr, NoStateChangeCallback)

InitCheck ==
    /\ cfg \in CheckConfigs
    /\ fresh = [k \in Keys |-> NoEntry]
    /\ stale = [k \in Keys |-> NoEntry]
    /\ req = [r \in Requests |-> IdleRequest]
    /\ out = IdleRequest

\* The variables of check_decision where no call of it is made.
NoCheck ==
    /\ cfg = [circuit_breaker |-> FALSE, decision_cache |-> FALSE,
              fallback |-> "cache_then_deny", no_stale_for |-> << >>,
              serve_stale_cache |-> TRUE, connection_pool |-> FALSE]
    /\ fresh = [k \in Keys |-> NoEntry]
    /\ stale = [k \in Keys |-> NoEntry]
    /\ req = [r \in Requests |-> IdleRequest]
    /\ out = IdleRequest

StartCheck(r) ==
    /\ req[r].pc = "idle"
    /\ \E p \in CheckPaths : \E o \in StartOutcomes(p) :
        /\ o.b.failure_count <= FailureCap(o.b)
        /\ cb' = o.b
        /\ fresh' = o.fr
        /\ stale' = o.st
        /\ req' = [req EXCEPT ![r] = IF o.rq.pc = "done" THEN IdleRequest ELSE o.rq]
        /\ out' = IF o.rq.pc = "done" THEN o.rq ELSE IdleRequest
    /\ UNCHANGED <<now, cfg, fb, historyVars, extVars>>

\* What the authorizer's response holds under the decision name asked for:
\* a bool, or nothing.
Answers == Decisions \cup {"absent"}

\* decisions_result.get(decision, False).
DecisionOf(answer) == IF answer = "absent" THEN "False" ELSE answer

\* The authorizer answers: record_success, both caches written, the result
\* returned.
CallReturns(r) ==
    /\ req[r].pc = "calling"
    /\ \E answer \in Answers :
        LET key == KeyOf(req[r].path)
            value == DecisionOf(answer)
        IN  /\ cb' = IF cfg.circuit_breaker
                     THEN RecordSuccess(cb, now, NoStateChangeCallback).b ELSE cb
            /\ fresh' = IF cfg.decision_cache
                        THEN CacheSet(fresh, key, value, now) ELSE fresh
            /\ stale' = SetStaleCached(cfg, stale, key, value, now)
            /\ req' = [req EXCEPT ![r] = IdleRequest]
            /\ out' = [req[r] EXCEPT !.pc = "done", !.ret = value, !.answer = answer,
                                     !.succ = IF cfg.circuit_breaker THEN 1 ELSE 0]
    /\ UNCHANGED <<now, cfg, fb, historyVars, extVars>>

\* What the except clause may leave behind for the exception e of the
\* authorizer call of request r.
RaiseOutcomes(r, e) ==
    { ExceptClause(cfg, cb, stale, req[r].path, KeyOf(req[r].path), now, e, beh, ofo,
                   NoStateChangeCallback)
        : beh \in Behaviours(cfg), ofo \in OnFallbackOutcomes }

\* The authorizer call raises e: the except clause.
CallRaises(r) ==
    /\ req[r].pc = "calling"
    /\ \E e \in Exceptions : \E ec \in RaiseOutcomes(r, e) :
        /\ ec.b.failure_count <= FailureCap(ec.b)
        /\ cb' = ec.b
        /\ stale' = ec.st
        /\ req' = [req EXCEPT ![r] = IdleRequest]
        /\ out' = [req[r] EXCEPT !.pc = "done", !.err = e,
                                 !.ret = ec.ret, !.exc = ec.exc,
                                 !.fails = ec.fails,
                                 !.fallbacks = IF ec.fallback THEN 1 ELSE 0,
                                 !.stale_cached = ec.fp.stale_cached,
                                 !.received = ec.fp.received,
                                 !.custom_raised = ec.fp.custom_raised,
                                 !.on_fallback_raised = ec.fp.on_fallback_raised]
    /\ UNCHANGED <<now, cfg, fb, fresh, historyVars, extVars>>

Elapse ==
    /\ now < MaxCheckTime
    /\ now' = now + 1
    /\ out' = IdleRequest
    /\ UNCHANGED <<cb, cfg, fb, fresh, stale, req, historyVars, extVars>>

NextCheck ==
    \/ \E r \in Requests : StartCheck(r)
    \/ \E r \in Requests : CallReturns(r)
    \/ \E r \in Requests : CallRaises(r)
    \/ Elapse

-----------------------------------------------------------------------------
(* ConnectionPool (connection_pool.py)                                     *)
(* A PooledConnection is a positive integer (its _id); the pool keeps its  *)
(* healthy flag and last_used_at.  The only suspension points are the wait *)
(* for the semaphore in acquire and the wait for the cancelled cleanup     *)
(* task in close: an unbounded Queue.put and an uncontended Lock never     *)
(* suspend, so every other stretch of code is one atomic step.             *)

MaxConnIds == 3             \* at most this many connections are ever created
MaxPoolTime == 2            \* the clock stops here while the pool is exercised
AcquireTimeout == 1         \* ConnectionPool.acquire_timeout, in clock ticks
MaxIdleTime == 1            \* ConnectionPool.max_idle_time, in clock ticks

Tasks == {"t1", "t2"}
NoTask == "none"
ConnIds == 1..MaxConnIds
NoConn == 0

\* The settings of the modelled pools.  sweeper: idle_check_interval > 0;
\* configured: configure() was given authorizer options.
PoolConfigs ==
    { [min_connections |-> 1, max_connections |-> 2, eager_init |-> TRUE,
       sweeper |-> TRUE, configured |-> TRUE],
      [min_connections |-> 0, max_connections |-> 1, eager_init |-> FALSE,
       sweeper |-> FALSE, configured |-> TRUE],
      [min_connections |-> 2, max_connections |-> 1, eager_init |-> TRUE,
       sweeper |-> FALSE, configured |-> TRUE],
      [min_connections |-> 1, max_connections |-> 1, eager_init |-> TRUE,
       sweeper |-> FALSE, configured |-> FALSE] }

\* The pool after construction and configure().
NewPool(c) ==
    [ cfg |-> c,
      idle |-> << >>,
      connections |-> {},
      busy |-> {},
      value |-> c.max_connections,
      waiters |-> << >>,
      initialized |-> FALSE,
      closed |-> FALSE,
      cleanup_task |-> FALSE,
      closing |-> FALSE,
      healthy |-> [i \in ConnIds |-> TRUE],
      last_used_at |-> [i \in ConnIds |-> 0],
      next_id |-> 1 ]

\* The pool lets go of the connections in cs: they leave _connections, and
\* the attributes of an object the pool no longer references are not kept.
Discard(p, cs) ==
    [p EXCEPT !.connections = @ \ cs,
              !.last_used_at = [i \in ConnIds |-> IF i \in cs THEN 0 ELSE @[i]]]

\* _create_connection at time t; ok: the AuthorizerClient constructor returns.
\* [p, conn, exc].
CreateConnection(p, t, ok) ==
    IF ~p.cfg.configured
    THEN [p |-> p, conn |-> NoConn, exc |-> "RuntimeError"]
    ELSE IF ~ok
    THEN [p |-> p, conn |-> NoConn, exc |-> "Exception"]
    ELSE [p |-> [p EXCEPT !.connections = @ \cup {p.next_id},
                          !.healthy[p.next_id] = TRUE,
                          !.last_used_at[p.next_id] = t,
                          !.next_id = @ + 1],
          conn |-> p.next_id, exc |-> NoError]

\* The eager loop of initialize: n more connections to create, those of the
\* iterations in fails raise and are skipped.
RECURSIVE EagerCreate(_, _, _, _)
EagerCreate(p, t, n, fails) ==
    IF n = 0 THEN p
    ELSE LET cr == CreateConnection(p, t, n \notin fails)
             p1 == IF cr.exc = NoError
                   THEN [cr.p EXCEPT !.idle = Append(@, cr.conn)]
                   ELSE p
         IN  EagerCreate(p1, t, n - 1, fails)

\* initialize at time t.
Initialize(p, t, fails) ==
    IF p.initialized THEN p
    ELSE LET p1 == IF p.cfg.eager_init /\ p.cfg.configured
                   THEN EagerCreate(p, t, p.cfg.min_connections, fails)
                   ELSE p
         IN  [p1 EXCEPT !.cleanup_task = p.cfg.sweeper, !.initialized = TRUE]

\* asyncio.Semaphore.locked.
SemLocked(p) == p.value = 0 \/ p.waiters # << >>

\* asyncio.Semaphore.release: the permit goes to the first waiter that has
\* not been woken yet, if there is one.  tk is the task variable.
\* [p, tk].
SemRelease(p, tk) ==
    LET sleeping == SelectSeq(p.waiters, LAMBDA w : tk[w].pc = "waiting")
    IN  IF sleeping = << >>
        THEN [p |-> [p EXCEPT !.value = @ + 1], tk |-> tk]
        ELSE [p |-> p, tk |-> [tk EXCEPT ![Head(sleeping)].pc = "granted"]]

\* acquire from the point where the permit is held, at time t.
\* [p, tk, conn, exc, created].
AcquireWithPermit(p, tk, t, ok) ==
    IF p.idle # << >>
    THEN LET conn == Head(p.idle)
         IN  [p |-> [p EXCEPT !.idle = Tail(@),
                              !.last_used_at[conn] = t,
                              !.busy = @ \cup {conn}],
              tk |-> tk, conn |-> conn, exc |-> NoError, created |-> FALSE]
    ELSE LET cr == CreateConnection(p, t, ok)
         IN  IF cr.exc = NoError
             THEN [p |-> [cr.p EXCEPT !.busy = @ \cup {cr.conn}],
                   tk |-> tk, conn |-> cr.conn, exc |-> NoError, created |-> TRUE]
             ELSE LET rel == SemRelease(p, tk)
                  IN  [p |-> rel.p, tk |-> rel.tk, conn |-> NoConn, exc |-> cr.exc,
                       created |-> FALSE]

\* A mutation of Release: the connection stays in _busy.
ReleaseKeepsBusy(p, tk, conn, t) ==
    IF conn \notin p.busy
    THEN [p |-> p, tk |-> tk, known |-> FALSE]
    ELSE LET p2 == IF p.healthy[conn] /\ ~p.closed
                   THEN [p EXCEPT !.last_used_at[conn] = t,
                                  !.idle = Append(@, conn)]
                   ELSE Discard(p, {conn})
             rel == SemRelease(p2, tk)
         IN  [p |-> rel.p, tk |-> rel.tk, known |-> TRUE]

\* A mutation of Release: the permit is released only when the connection
\* goes back to the idle queue.
ReleaseHealthyOnly(p, tk, conn, t) ==
    IF conn \notin p.busy
    THEN [p |-> p, tk |-> tk, known |-> FALSE]
    ELSE LET p1 == [p EXCEPT !.busy = @ \ {conn}]
         IN  IF p1.healthy[conn] /\ ~p1.closed
             THEN LET rel == SemRelease([p1 EXCEPT !.last_used_at[conn] = t,
                                                   !.idle = Append(@, conn)], tk)
                  IN  [p |-> rel.p, tk |-> rel.tk, known |-> TRUE]
             ELSE [p |-> Discard(p1, {conn}), tk |-> tk, known |-> TRUE]

\* A mutation of Release: the connection goes back to the idle queue whatever
\* its healthy flag says.
ReleaseIgnoresHealth(p, tk, conn, t) ==
    IF conn \notin p.busy
    THEN [p |-> p, tk |-> tk, known |-> FALSE]
    ELSE LET p1 == [p EXCEPT !.busy = @ \ {conn}]
             p2 == IF ~p1.closed
                   THEN [p1 EXCEPT !.last_used_at[conn] = t,
                                   !.idle = Append(@, conn)]
                   ELSE Discard(p1, {conn})
             rel == SemRelease(p2, tk)
         IN  [p |-> rel.p, tk |-> rel.tk, known |-> TRUE]

\* A mutation of Release: the test for the busy set is left out.
ReleaseUnchecked(p, tk, conn, t) ==
    LET p1 == [p EXCEPT !.busy = @ \ {conn}]
        p2 == IF p1.healthy[conn] /\ ~p1.closed
              THEN [p1 EXCEPT !.last_used_at[conn] = t,
                              !.idle = Append(@, conn)]
              ELSE Discard(p1, {conn})
        rel == SemRelease(p2, tk)
    IN  [p |-> rel.p, tk |-> rel.tk, known |-> conn \in p.busy]

\* release(conn) at time t.  [p, tk, known: conn was in _busy].
Release(p, tk, conn, t) ==
    IF conn \notin p.busy
    THEN [p |-> p, tk |-> tk, known |-> FALSE]
    ELSE LET p1 == [p EXCEPT !.busy = @ \ {conn}]
             p2 == IF p1.healthy[conn] /\ ~p1.closed
                   THEN [p1 EXCEPT !.last_used_at[conn] = t,
                                   !.idle = Append(@, conn)]
                   ELSE Discard(p1, {conn})
             rel == SemRelease(p2, tk)
         IN  [p |-> rel.p, tk |-> rel.tk, known |-> TRUE]

\* The first loop of _cleanup_idle_connections over what is left of the idle
\* queue: [keep: temp_idle, close: to_close].
RECURSIVE Partition(_, _, _, _, _)
Partition(p, t, rest, keep, close) ==
    IF rest = << >> THEN [keep |-> keep, close |-> close]
    ELSE LET conn == Head(rest)
         IN  IF /\ t - p.last_used_at[conn] > MaxIdleTime
                /\ Cardinality(p.connections) - Len(close) > p.cfg.min_connections
             THEN Partition(p, t, Tail(rest), keep, Append(close, conn))
             ELSE Partition(p, t, Tail(rest), Append(keep, conn), close)

\* A mutation of CleanupIdleConnections: min_connections is not looked at.
CleanupIdleConnectionsAll(p, t) ==
    LET tooOld(c) == t - p.last_used_at[c] > MaxIdleTime
        close == SelectSeq(p.idle, tooOld)
    IN  [p |-> Discard([p EXCEPT !.idle = SelectSeq(p.idle, LAMBDA c : ~tooOld(c))],
                       {close[i] : i \in 1..Len(close)}),
         closed |-> close]

\* _cleanup_idle_connections at time t.  [p, closed: to_close].
CleanupIdleConnections(p, t) ==
    LET parts == Partition(p, t, p.idle, << >>, << >>)
    IN  [p |-> Discard([p EXCEPT !.idle = parts.keep],
                       {parts.close[i] : i \in 1..Len(parts.close)}),
         closed |-> parts.close]

\* close up to the wait for the cancelled cleanup task.
CloseStart(p) == [p EXCEPT !.closed = TRUE]

\* close after that wait.
CloseDrain(p) ==
    Discard([p EXCEPT !.idle = << >>, !.busy = {}, !.closing = FALSE], ConnIds)

-----------------------------------------------------------------------------
(* The callers of the pool.  pc: "idle" (not in a call), "scheduled" (in   *)
(* wait_for, the semaphore not tried yet), "waiting" (queued on the        *)
(* semaphore), "granted" (holds a permit, not resumed yet), "holding" (has *)
(* acquired conn and not released it).                                     *)

IdleTask == [pc |-> "idle", conn |-> NoConn, deadline |-> 0, waited |-> FALSE]

NoPoolOp ==
    [op |-> "init", task |-> NoTask, conn |-> NoConn, exc |-> NoError,
     created |-> FALSE, closed |-> << >>, known |-> FALSE, waited |-> FALSE]

PoolOp(name, t, conn, exc, created) ==
    [op |-> name, task |-> t, conn |-> conn, exc |-> exc,
     created |-> created, closed |-> << >>, known |-> FALSE, waited |-> FALSE]

Without(q, t) == SelectSeq(q, LAMBDA w : w # t)

poolFrame == <<cb, last, streak, admitted, okrun, opened_at, lock, fb, checkVars, cacheVars, mw,
              restVars>>

InitPool ==
    /\ pool \in {NewPool(c) : c \in PoolConfigs}
    /\ task = [t \in Tasks |-> IdleTask]
    /\ plast = NoPoolOp

\* The pool of a specification that does not exercise it.
NoPool ==
    /\ pool = NewPool([min_connections |-> 0, max_connections |-> 1, eager_init |-> FALSE,
                       sweeper |-> FALSE, configured |-> FALSE])
    /\ task = [t \in Tasks |-> IdleTask]
    /\ plast = NoPoolOp

\* A mutation of AcquireRefused: the closed flag is not looked at.
AcquireRefusedNever(p) == FALSE

\* The first check of acquire: a closed pool raises RuntimeError.
AcquireRefused(p) == p.closed

\* initialize() called by the application.
DoInitialize ==
    /\ ~pool.initialized
    /\ \E fails \in SUBSET (1..pool.cfg.min_connections) :
        /\ pool' = Initialize(pool, now, fails)
        /\ plast' = PoolOp("initialize", NoTask, NoConn, NoError, FALSE)
    /\ UNCHANGED <<now, task, poolFrame>>

\* acquire() up to its first suspension: it fails on a closed pool,
\* initializes the pool if needed, and then either takes a free permit and
\* runs to its end at once, or suspends in wait_for.
StartAcquire(t) ==
    /\ task[t].pc = "idle"
    /\ IF AcquireRefused(pool)
       THEN /\ plast' = PoolOp("acquire", t, NoConn, "RuntimeError", FALSE)
            /\ UNCHANGED <<pool, task>>
       ELSE \E fails \in SUBSET (1..pool.cfg.min_connections), ok \in BOOLEAN :
            LET p1 == Initialize(pool, now, fails)
            IN  \/ /\ ~SemLocked(p1)
                   /\ LET r == AcquireWithPermit([p1 EXCEPT !.value = @ - 1], task, now, ok)
                      IN  /\ r.p.next_id <= MaxConnIds + 1
                          /\ pool' = r.p
                          /\ task' = IF r.exc = NoError
                                     THEN [r.tk EXCEPT ![t] = [pc |-> "holding", conn |-> r.conn,
                                                               deadline |-> 0, waited |-> FALSE]]
                                     ELSE r.tk
                          /\ plast' = PoolOp("acquire", t, r.conn, r.exc, r.created)
                \/ /\ ok
                   /\ pool' = p1
                   /\ task' = [task EXCEPT ![t] = [pc |-> "scheduled", conn |-> NoConn,
                                                   deadline |-> now + AcquireTimeout,
                                                   waited |-> FALSE]]
                   /\ plast' = PoolOp("acquire_wait", t, NoConn, NoError, FALSE)
    /\ UNCHANGED <<now, poolFrame>>

\* Semaphore.acquire run inside wait_for: the permit is taken if the
\* semaphore is not locked, else the caller queues.
SemAcquire(t) ==
    /\ task[t].pc = "scheduled"
    /\ IF SemLocked(pool)
       THEN /\ pool' = [pool EXCEPT !.waiters = Append(@, t)]
            /\ task' = [task EXCEPT ![t].pc = "waiting", ![t].waited = TRUE]
       ELSE /\ pool' = [pool EXCEPT !.value = @ - 1]
            /\ task' = [task EXCEPT ![t].pc = "granted"]
    /\ plast' = PoolOp("sem_acquire", t, NoConn, NoError, FALSE)
    /\ UNCHANGED <<now, poolFrame>>

\* acquire resumed with its permit: the rest of the method.
ResumeAcquire(t) ==
    /\ task[t].pc = "granted"
    /\ \E ok \in BOOLEAN :
        LET p1 == [pool EXCEPT !.waiters = Without(@, t)]
            r == AcquireWithPermit(p1, task, now, ok)
        IN  /\ r.p.next_id <= MaxConnIds + 1
            /\ pool' = r.p
            /\ task' = [r.tk EXCEPT ![t] = IF r.exc = NoError
                                           THEN [pc |-> "holding", conn |-> r.conn,
                                                 deadline |-> 0, waited |-> FALSE]
                                           ELSE IdleTask]
            /\ plast' = [PoolOp("acquire", t, r.conn, r.exc, r.created)
                             EXCEPT !.waited = task[t].waited]
    /\ UNCHANGED <<now, poolFrame>>

\* wait_for gives up: acquire raises asyncio.TimeoutError.
TimeoutAcquire(t) ==
    /\ task[t].pc \in {"scheduled", "waiting"}
    /\ now >= task[t].deadline
    /\ pool' = [pool EXCEPT !.waiters = Without(@, t)]
    /\ task' = [task EXCEPT ![t] = IdleTask]
    /\ plast' = [PoolOp("acquire", t, NoConn, "TimeoutError", FALSE)
                     EXCEPT !.waited = task[t].waited]
    /\ UNCHANGED <<now, poolFrame>>

\* The holder of a connection sets conn.healthy = False.
MarkUnhealthy(t) ==
    /\ task[t].pc = "holding"
    /\ pool.healthy[task[t].conn]
    /\ pool' = [pool EXCEPT !.healthy[task[t].conn] = FALSE]
    /\ plast' = PoolOp("mark_unhealthy", t, task[t].conn, NoError, FALSE)
    /\ UNCHANGED <<now, task, poolFrame>>

\* The holder of a connection releases it.
DoRelease(t) ==
    /\ task[t].pc = "holding"
    /\ LET r == Release(pool, task, task[t].conn, now)
       IN  /\ pool' = r.p
           /\ task' = [r.tk EXCEPT ![t] = IdleTask]
           /\ plast' = [PoolOp("release", t, task[t].conn, NoError, FALSE)
                            EXCEPT !.known = r.known]
    /\ UNCHANGED <<now, poolFrame>>

\* A caller that holds no connection releases once more a connection that
\* is not in the busy set: one it released before, or one the pool dropped.
DoReleaseAgain(t) ==
    /\ task[t].pc = "idle"
    /\ \E conn \in 1..(pool.next_id - 1) :
        /\ conn \notin pool.busy
        /\ LET r == Release(pool, task, conn, now)
           IN  /\ pool' = r.p
               /\ task' = r.tk
               /\ plast' = [PoolOp("release", t, conn, NoError, FALSE)
                                EXCEPT !.known = r.known]
    /\ UNCHANGED <<now, poolFrame>>

\* One pass of _idle_cleanup_loop.
Sweep ==
    /\ pool.initialized
    /\ ~pool.closed
    /\ LET r == CleanupIdleConnections(pool, now)
       IN  /\ pool' = r.p
           /\ plast' = [PoolOp("sweep", NoTask, NoConn, NoError, FALSE)
                            EXCEPT !.closed = r.closed]
    /\ UNCHANGED <<now, task, poolFrame>>

\* close(): with a cleanup task it suspends after cancelling it.
DoClose ==
    /\ ~pool.closed
    /\ pool' = IF pool.cleanup_task
               THEN [CloseStart(pool) EXCEPT !.closing = TRUE]
               ELSE CloseDrain(CloseStart(pool))
    /\ plast' = PoolOp("close", NoTask, NoConn, NoError, FALSE)
    /\ UNCHANGED <<now, task, poolFrame>>

\* close() resumed.
FinishClose ==
    /\ pool.closing
    /\ pool' = CloseDrain(pool)
    /\ plast' = PoolOp("close", NoTask, NoConn, NoError, FALSE)
    /\ UNCHANGED <<now, task, poolFrame>>

\* Time passes; the timer of a wait_for fires no later than its deadline.
PoolTick ==
    /\ now < MaxPoolTime
    /\ \A t \in Tasks : task[t].pc \in {"scheduled", "waiting"} => now < task[t].deadline
    /\ now' = now + 1
    /\ plast' = PoolOp("tick", NoTask, NoConn, NoError, FALSE)
    /\ UNCHANGED <<pool, task, poolFrame>>

NextPool ==
    \/ DoInitialize
    \/ \E t \in Tasks : StartAcquire(t)
    \/ \E t \in Tasks : SemAcquire(t)
    \/ \E t \in Tasks : ResumeAcquire(t)
    \/ \E t \in Tasks : TimeoutAcquire(t)
    \/ \E t \in Tasks : MarkUnhealthy(t)
    \/ \E t \in Tasks : DoRelease(t)
    \/ \E t \in Tasks : DoReleaseAgain(t)
    \/ Sweep
    \/ DoClose
    \/ FinishClose
    \/ PoolTick


-----------------------------------------------------------------------------
(* DecisionCache (dependencies.py)                                         *)
(* _cache is a dict: a sequence of entries in insertion order, a key       *)
(* assigned again keeping its place.  get, set and clear hold the lock for *)
(* their whole body and never suspend in it: each is one atomic step.      *)

MaxCacheTime == 2           \* the clock stops here while the cache is exercised

\* A resource context: None, the empty dict, or a dict with one item.
NoneContext == "None"
EmptyContext == "{}"
SomeContext == "{k: v}"

\* str(sorted(resource_context.items())) if resource_context else "".
CtxStr(resource_context) ==
    IF resource_context \in {NoneContext, EmptyContext}
    THEN << >>
    ELSE <<"[", "(", "k", ",", "v", ")", "]">>

\* DecisionCache._make_key, the digest taken as injective.
DecisionCacheKey(l) ==
    MakeKey(l.identity_value, l.policy_path, l.decision, CtxStr(l.resource_context))

Lookup(i, p, d, c) ==
    [identity_value |-> i, policy_path |-> p, decision |-> d, resource_context |-> c]

BaseLookup == Lookup(<<"a", ":", "b">>, <<"c">>, <<"d">>, NoneContext)

\* The lookups of a cache that every caller shares: a base lookup, one that
\* differs from it in each single field, the same with the other spelling
\* of "no context", and one with the colon between identity and path moved.
FieldLookups ==
    { BaseLookup,
      Lookup(<<"a">>, <<"c">>, <<"d">>, NoneContext),
      Lookup(<<"a", ":", "b">>, <<"b", ":", "c">>, <<"d">>, NoneContext),
      Lookup(<<"a", ":", "b">>, <<"c">>, <<"e">>, NoneContext),
      Lookup(<<"a", ":", "b">>, <<"c">>, <<"d">>, SomeContext),
      Lookup(<<"a", ":", "b">>, <<"c">>, <<"d">>, EmptyContext),
      Lookup(<<"a">>, <<"b", ":", "c">>, <<"d">>, NoneContext) }

\* The lookups of a scan over eleven identities, in its order.
ScanNames == <<"0", "1", "2", "3", "4", "5", "6", "7", "8", "9", "10">>
ScanLookup(n) == Lookup(<<"u", ScanNames[n]>>, <<"c">>, <<"d">>, NoneContext)
ScanLookups == {ScanLookup(n) : n \in 1..Len(ScanNames)}

Lookups == FieldLookups \cup ScanLookups
NoLookup == Lookup(<< >>, << >>, << >>, NoneContext)

\* The modelled caches.  scan: the cache is filled by a scan, which sets
\* ScanLookups in order, again and again.  probe: the lookup whose set calls
\* the history follows.
CacheConfigs ==
    { [max_size |-> 1, scan |-> FALSE, probe |-> BaseLookup],
      [max_size |-> 10, scan |-> TRUE, probe |-> ScanLookup(1)] }

NewCache(c) ==
    [max_size |-> c.max_size, scan |-> c.scan, probe |-> c.probe, cache |-> << >>, next |-> 1]

\* The position of key in the dict, 0 if it has none.
PositionOf(entries, key) ==
    IF \E i \in 1..Len(entries) : entries[i].key = key
    THEN CHOOSE i \in 1..Len(entries) : entries[i].key = key
    ELSE 0

DropFirst(entries, n) ==
    IF n >= Len(entries) THEN << >> ELSE SubSeq(entries, n + 1, Len(entries))

\* DecisionCache.get at time t: [value, d: the cache afterwards].
DecisionCacheGet(d, key, t) ==
    LET i == PositionOf(d.cache, key)
    IN  IF i = 0
        THEN [value |-> NoDecision, d |-> d]
        ELSE IF t > d.cache[i].expires_at
             THEN [value |-> NoDecision,
                   d |-> [d EXCEPT !.cache = SelectSeq(@, LAMBDA e : e.key # key)]]
             ELSE [value |-> d.cache[i].value, d |-> d]

\* The eviction of DecisionCache.set at time t.
Evict(d, t) ==
    IF Len(d.cache) >= d.max_size
    THEN LET kept == SelectSeq(d.cache, LAMBDA e : ~(e.expires_at < t))
         IN  IF Len(kept) >= d.max_size
             THEN DropFirst(kept, d.max_size \div 10)
             ELSE kept
    ELSE d.cache

\* DecisionCache.set at time t.  by: history, the lookup that made the entry.
DecisionCacheSet(d, l, value, t) ==
    LET left == Evict(d, t)
        key == DecisionCacheKey(l)
        entry == [key |-> key, value |-> value, expires_at |-> t + CacheTtl, by |-> l]
        i == PositionOf(left, key)
    IN  [d EXCEPT !.cache = IF i = 0 THEN Append(left, entry)
                            ELSE [left EXCEPT ![i] = entry]]

\* DecisionCache.clear.
DecisionCacheClear(d) == [d EXCEPT !.cache = << >>]

-----------------------------------------------------------------------------
(* The callers of the cache.  dhist is the history of the set calls for    *)
(* the (identity, policy path, decision name, resource context) of the     *)
(* probe, None and the empty dict being the same context: the value and    *)
(* time of the most recent one since the last clear.                       *)

Norm(l) ==
    [l EXCEPT !.resource_context = IF @ = NoneContext THEN EmptyContext ELSE @]

NeverSet == [value |-> NoDecision, at |-> None]

NoCacheOp == [op |-> "init", lookup |-> NoLookup, ret |-> NoDecision, value |-> NoDecision]

cacheFrame == <<cb, last, streak, admitted, okrun, opened_at, lock, fb, checkVars, poolVars, mw,
               restVars>>

InitCache ==
    /\ dc \in {NewCache(c) : c \in CacheConfigs}
    /\ dhist = NeverSet
    /\ dlast = NoCacheOp

\* The cache of a specification that does not exercise it.
NoCache ==
    /\ dc = NewCache([max_size |-> 1, scan |-> FALSE, probe |-> BaseLookup])
    /\ dhist = NeverSet
    /\ dlast = NoCacheOp

\* What callers set and look up in the cache d: a scan sets its next lookup
\* and looks up the probe; otherwise the base lookup, its two aliases and
\* one other lookup are set, and every lookup is looked up.
SetLookups(d) ==
    IF d.scan THEN {ScanLookup(d.next)}
    ELSE { BaseLookup,
           Lookup(<<"a", ":", "b">>, <<"c">>, <<"d">>, EmptyContext),
           Lookup(<<"a">>, <<"b", ":", "c">>, <<"d">>, NoneContext),
           Lookup(<<"a", ":", "b">>, <<"c">>, <<"e">>, NoneContext) }
SetValues(d) == IF d.scan THEN {"True"} ELSE Decisions
GetLookups(d) == IF d.scan THEN {d.probe} ELSE FieldLookups

DoCacheGet ==
    /\ \E l \in GetLookups(dc) :
        LET r == DecisionCacheGet(dc, DecisionCacheKey(l), now)
        IN  /\ dc' = r.d
            /\ dlast' = [op |-> "get", lookup |-> l, ret |-> r.value, value |-> NoDecision]
    /\ UNCHANGED <<now, dhist, cacheFrame>>

DoCacheSet ==
    /\ \E l \in SetLookups(dc), v \in SetValues(dc) :
        /\ dc' = [DecisionCacheSet(dc, l, v, now)
                      EXCEPT !.next = IF dc.scan THEN (dc.next % Len(ScanNames)) + 1 ELSE @]
        /\ dhist' = IF Norm(l) = Norm(dc.probe) THEN [value |-> v, at |-> now] ELSE dhist
        /\ dlast' = [op |-> "set", lookup |-> l, ret |-> NoDecision, value |-> v]
    /\ UNCHANGED <<now, cacheFrame>>

DoCacheClear ==
    /\ dc.cache # << >>
    /\ dc' = DecisionCacheClear(dc)
    /\ dhist' = NeverSet
    /\ dlast' = [op |-> "clear", lookup |-> NoLookup, ret |-> NoDecision, value |-> NoDecision]
    /\ UNCHANGED <<now, cacheFrame>>

CacheTick ==
    /\ now < MaxCacheTime
    /\ now' = now + 1
    /\ dlast' = [op |-> "tick", lookup |-> NoLookup, ret |-> NoDecision, value |-> NoDecision]
    /\ UNCHANGED <<dc, dhist, cacheFrame>>

NextCache ==
    \/ DoCacheGet
    \/ DoCacheSet
    \/ DoCacheClear
    \/ CacheTick

-----------------------------------------------------------------------------
(* TopazMiddleware.__call__ (middleware.py)                                *)
(* One request through the middleware.  The middleware keeps no state of   *)
(* its own between requests; it suspends where it awaits check_decision,   *)
(* the audit logger, the response and the application.                     *)

\* What a callable of the application does when called: it is not
\* configured, it returns, or it raises.
Callables == {"unset", "ok", "raise"}

\* What identity_provider yields: an identity with a value, an identity with
\* an empty value, None, or an exception.
IdentityOutcomes == {"user", "empty", "none", "raise"}

\* The route matched by _match_route: none, a plain route, a route whose
\* endpoint carries __skip_topaz_middleware__, a route with a SkipMiddleware
\* dependency.
RouteKinds == {"none", "plain", "skip_marker", "skip_dependency"}

NoResponse == "none"
Responses == {NoResponse, "401", "403", "on_denied"}

\* The methods a request can carry, and the exclude_methods argument of the
\* constructor: not given, an empty list, or a list of its own.
Methods == {"GET", "OPTIONS", "HEAD"}
NoArg == [given |-> FALSE, list |-> << >>]
ExcludeMethodsArgs ==
    {NoArg, [given |-> TRUE, list |-> << >>], [given |-> TRUE, list |-> <<"GET">>]}

\* __init__: set(exclude_methods or ["OPTIONS", "HEAD"]).
ExcludeMethods(arg) ==
    IF ~arg.given \/ arg.list = << >> THEN {"OPTIONS", "HEAD"}
    ELSE {arg.list[i] : i \in DOMAIN arg.list}

\* A mutation of _is_excluded: the SkipMiddleware dependency of a route is
\* not looked at.
IsExcludedMarkerOnly(m) ==
    \/ m.method \in ExcludeMethods(m.exclude_methods)
    \/ m.path_excluded
    \/ m.route = "skip_marker"

\* _is_excluded.
IsExcluded(m) ==
    \/ m.method \in ExcludeMethods(m.exclude_methods)
    \/ m.path_excluded
    \/ m.route \in {"skip_marker", "skip_dependency"}

\* The request as received: nothing done yet.
Received(m) ==
    [m EXCEPT !.pc = "received", !.app_called = FALSE, !.response = NoResponse,
              !.exc = FALSE, !.identity_calls = 0, !.anonymous = FALSE,
              !.context_built = FALSE, !.check_called = FALSE, !.check = "none",
              !.check_identity = "none", !.audited = "none", !.path_params_set = FALSE]

\* await self.app(scope, receive, send).
CallApp(m) == [m EXCEPT !.pc = "done", !.app_called = TRUE]

\* await response(scope, receive, send).
Respond(m, response) == [m EXCEPT !.pc = "done", !.response = response]

\* An exception leaves __call__.
Escape(m) == [m EXCEPT !.pc = "done", !.exc = TRUE]

\* The identity is None or has no value.
IdentityMissing(m) == m.identity # "user"

\* __call__ from the missing-identity test to the call of check_decision.
ToCheck(m) ==
    IF IdentityMissing(m) /\ m.on_missing_identity = "deny"
    THEN IF m.audit_logger = "raise"
         THEN Escape([m EXCEPT !.audited = "unauthenticated"])
         ELSE Respond([m EXCEPT !.audited = IF m.audit_logger = "ok"
                                            THEN "unauthenticated" ELSE "none"], "401")
    ELSE LET m1 == [m EXCEPT !.anonymous = IdentityMissing(m)]
         IN  IF m1.resource_context_provider = "raise"
             THEN Escape(m1)
             ELSE [m1 EXCEPT !.context_built = TRUE, !.check_called = TRUE,
                             !.check_identity = "provider", !.pc = "checking"]

\* __call__ up to its await of check_decision, or to its end.
Begin(m) ==
    IF m.scope_type # "http" THEN CallApp(m)
    ELSE IF IsExcluded(m) THEN CallApp(m)
    ELSE IF m.route = "none" THEN CallApp(m)
    ELSE ToCheck([m EXCEPT !.identity_calls = 1])

\* __call__ from the outcome of check_decision ("True", "False" or "raise")
\* to its end.
Resume(m, outcome) ==
    LET allowed == outcome = "True"
        m1 == [m EXCEPT !.check = outcome]
        m2 == [m1 EXCEPT !.audited = IF m.audit_logger = "unset" THEN "none"
                                     ELSE IF allowed THEN "allowed" ELSE "denied"]
    IN  IF m.audit_logger = "raise" THEN Escape(m2)
        ELSE IF ~allowed
        THEN IF m.on_denied = "raise" THEN Escape(m2)
             ELSE Respond(m2, IF m.on_denied = "ok" THEN "on_denied" ELSE "403")
        ELSE CallApp([m2 EXCEPT !.path_params_set = TRUE])

\* What check_decision can do for the request.  It is handed the request,
\* not the identity the middleware settled on: it calls identity_provider
\* itself (the identity of the check is the provider's) and reads
\* identity.value before anything else, so it raises when the provider
\* raises and when the provider returns None.
CheckOutcomes(m) ==
    IF m.identity \in {"raise", "none"} THEN {"raise"} ELSE {"True", "False", "raise"}

mwFrame == <<breakerVars, fb, checkVars, poolVars, cacheVars, restVars>>

NoRequest ==
    Received([scope_type |-> "http", method |-> "GET", exclude_methods |-> NoArg,
              path_excluded |-> FALSE,
              route |-> "none", identity |-> "user", on_missing_identity |-> "deny",
              audit_logger |-> "unset", resource_context_provider |-> "unset",
              on_denied |-> "unset", pc |-> "none", app_called |-> FALSE,
              response |-> NoResponse, exc |-> FALSE, identity_calls |-> 0,
              anonymous |-> FALSE, context_built |-> FALSE, check_called |-> FALSE,
              check |-> "none", check_identity |-> "none", audited |-> "none",
              path_params_set |-> FALSE])

InitMiddleware ==
    \E st \in {"http", "websocket"}, me \in Methods,
       em \in ExcludeMethodsArgs, pe \in BOOLEAN, r \in RouteKinds,
       i \in IdentityOutcomes, omi \in {"deny", "anonymous"}, al \in Callables,
       rcp \in Callables, od \in Callables :
        mw = [NoRequest EXCEPT !.scope_type = st, !.method = me, !.exclude_methods = em,
                               !.path_excluded = pe, !.route = r, !.identity = i,
                               !.on_missing_identity = omi, !.audit_logger = al,
                               !.resource_context_provider = rcp, !.on_denied = od]

\* The middleware of a specification that does not exercise it.
NoMiddleware == mw = [NoRequest EXCEPT !.pc = "done"]

MwBegin ==
    /\ mw.pc = "received"
    /\ mw' = Begin(mw)
    /\ UNCHANGED mwFrame

MwResume ==
    /\ mw.pc = "checking"
    /\ \E outcome \in CheckOutcomes(mw) : mw' = Resume(mw, outcome)
    /\ UNCHANGED mwFrame

NextMiddleware ==
    \/ MwBegin
    \/ MwResume

-----------------------------------------------------------------------------
(* Fan-out over check_relation: TopazConfig.check_relations,               *)
(* check_hierarchy and filter_authorized_resources (dependencies.py)       *)
(* Two requests use one TopazConfig: the first runs one of the operations, *)
(* the second a check_relations of its own, through the same semaphore.    *)

MaxChecks == 3
MaxConcurrentChecks == 2

\* The checks an operation can be given: a relation for check_relations, a
\* resource for the list filter, an (object_type, id_source, relation) triple
\* for check_hierarchy.
ItemIds == {"a", "b", "c"}

\* The object type and the relation of a hierarchy check.
ObjType(x) == IF x = "a" THEN "organization" ELSE "document"
Rel(x) == CASE x = "a" -> "member" [] x = "b" -> "can_read" [] OTHER -> "can_write"

\* What a check_relation / check_decision call ends with.
Outcomes == {"True", "False", "raise"}

Callers == {"q1", "q2"}

\* The operations, and those that gather their checks.
Kinds == {"check_relations", "filter", "check_hierarchy"}
Modes == {"all", "any", "first_match"}

\* A mutation of IsSequential: only the optimize flag is looked at.
IsSequentialIgnoringMode(mode, optimize) == ~optimize

\* check_hierarchy: if mode == "first_match" or not optimize.
IsSequential(mode, optimize) == mode = "first_match" \/ ~optimize

Gathers(o) ==
    o.kind \in {"check_relations", "filter"} \/ ~IsSequential(o.mode, o.optimize)

NoRet ==
    [allowed |-> "none", checks |-> << >>, denied_at |-> "none", first_match |-> "none",
     map |-> {}, list |-> << >>]

\* An operation before it is called.
NewOp(kind, mode, optimize, items) ==
    [kind |-> kind, mode |-> mode, optimize |-> optimize, items |-> items,
     pc |-> "idle", child |-> [i \in DOMAIN items |-> "new"],
     res |-> [i \in DOMAIN items |-> "none"], order |-> << >>,
     ret |-> NoRet, exc |-> FALSE]

\* TopazConfig.semaphore after its first use: Semaphore(max_concurrent_checks).
NewFan(max, policy, ops) ==
    [max |-> max, value |-> max, waiters |-> << >>, policy |-> policy, ops |-> ops]

\* asyncio.Semaphore.locked().
FanLocked(f) == f.value = 0 \/ f.waiters # << >>

\* A mutation of FanAcquire: the permit is taken without waiting.
FanAcquireUnbounded(f, c, i) ==
    [f EXCEPT !.ops[c].child[i] = "inflight"]

\* async with self.semaphore, entered by check i of caller c.
FanAcquire(f, c, i) ==
    IF FanLocked(f)
    THEN [f EXCEPT !.waiters = Append(@, <<c, i>>), !.ops[c].child[i] = "waiting"]
    ELSE [f EXCEPT !.value = @ - 1, !.ops[c].child[i] = "inflight"]

\* async with self.semaphore, left: the permit goes to the first waiter.
FanRelease(f) ==
    IF f.waiters # << >>
    THEN LET w == Head(f.waiters)
         IN  [f EXCEPT !.waiters = Tail(@), !.ops[w[1]].child[w[2]] = "inflight"]
    ELSE [f EXCEPT !.value = IF @ < f.max THEN @ + 1 ELSE @]

\* The first index of a sequence of results that satisfies want, 0 if none.
FirstIndex(results, want) ==
    IF \E i \in DOMAIN results : results[i][2] = want
    THEN CHOOSE i \in DOMAIN results :
            /\ results[i][2] = want
            /\ \A j \in 1..(i - 1) : results[j][2] # want
    ELSE 0

\* A mutation of Gather: the results in the order the checks completed.
GatherCompletionOrder(o) ==
    [k \in DOMAIN o.order |-> <<o.items[o.order[k]], o.res[o.order[k]]>>]

\* asyncio.gather: the results of the checks in the order they were passed.
Gather(o) ==
    [i \in DOMAIN o.items |-> <<o.items[i], o.res[i]>>]

\* dict(results).
DictOf(results) ==
    {results[i] : i \in {k \in DOMAIN results :
                            \A j \in (k + 1)..Len(results) : results[j][1] # results[k][1]}}

\* [resource for resource, allowed in results if allowed].
RECURSIVE Authorized(_)
Authorized(results) ==
    IF results = << >> THEN << >>
    ELSE IF Head(results)[2] = "True"
         THEN <<Head(results)[1]>> \o Authorized(Tail(results))
         ELSE Authorized(Tail(results))

\* A mutation of ConcurrentResult: deniedAt is the check that failed last in
\* the list.
ConcurrentResultLastDenied(mode, results) ==
    IF mode = "all"
    THEN LET failing == {i \in DOMAIN results : results[i][2] # "True"}
         IN  IF failing # {}
             THEN [NoRet EXCEPT !.allowed = "False", !.checks = results,
                                !.denied_at =
                                    ObjType(results[CHOOSE i \in failing :
                                                        \A j \in failing : j <= i][1])]
             ELSE [NoRet EXCEPT !.allowed = "True", !.checks = results]
    ELSE [NoRet EXCEPT !.checks = results,
                       !.allowed = IF \E i \in DOMAIN results : results[i][2] = "True"
                                   THEN "True" ELSE "False"]

\* _check_hierarchy_concurrent, after the gather.
ConcurrentResult(mode, results) ==
    IF mode = "all"
    THEN LET i == FirstIndex(results, "False")
         IN  IF i # 0
             THEN [NoRet EXCEPT !.allowed = "False", !.checks = results,
                                !.denied_at = ObjType(results[i][1])]
             ELSE [NoRet EXCEPT !.allowed = "True", !.checks = results]
    ELSE [NoRet EXCEPT !.checks = results,
                       !.allowed = IF \E i \in DOMAIN results : results[i][2] = "True"
                                   THEN "True" ELSE "False"]

\* What the operation returns once every gathered check has returned.
GatherResult(o) ==
    CASE o.kind = "check_relations" -> [NoRet EXCEPT !.map = DictOf(Gather(o))]
      [] o.kind = "filter" -> [NoRet EXCEPT !.list = Authorized(Gather(o))]
      [] OTHER -> ConcurrentResult(o.mode, Gather(o))

\* The operation ends: it returns ret or raises.
Return(o, ret) == [o EXCEPT !.pc = "done", !.ret = ret]
Raise(o) == [o EXCEPT !.pc = "done", !.exc = TRUE]

\* The call of the operation up to its first suspension.  The list filter
\* returns [] for no resources; a gather of nothing returns at once; the
\* sequential loop calls its first check.
BeginOp(o) ==
    IF o.items = << >>
    THEN IF Gathers(o) THEN Return(o, GatherResult(o))
         ELSE Return(o, [NoRet EXCEPT !.allowed = IF o.mode = "all" THEN "True" ELSE "False"])
    ELSE IF Gathers(o) THEN [o EXCEPT !.pc = "running"]
         ELSE [o EXCEPT !.pc = "running", !.child[1] = "calling"]

\* _check_hierarchy_sequential: check i returned outcome.
SequentialStep(o, i, outcome) ==
    LET o1 == [o EXCEPT !.child[i] = "done", !.res[i] = outcome, !.order = Append(@, i)]
        results == [k \in 1..i |-> <<o.items[k], o1.res[k]>>]
    IN  IF outcome = "raise" THEN Raise(o1)
        ELSE IF o.mode = "all" /\ outcome = "False"
        THEN Return(o1, [NoRet EXCEPT !.allowed = "False", !.checks = results,
                                      !.denied_at = ObjType(o.items[i])])
        ELSE IF o.mode = "any" /\ outcome = "True"
        THEN Return(o1, [NoRet EXCEPT !.allowed = "True", !.checks = results])
        ELSE IF o.mode = "first_match" /\ outcome = "True"
        THEN Return(o1, [NoRet EXCEPT !.allowed = "True", !.checks = results,
                                      !.first_match = Rel(o.items[i])])
        ELSE IF i < Len(o.items) THEN [o1 EXCEPT !.child[i + 1] = "calling"]
        ELSE Return(o1, [NoRet EXCEPT !.checks = results,
                                      !.allowed = IF o.mode = "all" THEN "True" ELSE "False"])

\* A gathered check returned outcome: the gather raises with the first check
\* that raises and returns when the last check has returned.
GatheredStep(o, i, outcome) ==
    LET o1 == [o EXCEPT !.child[i] = "done", !.res[i] = outcome, !.order = Append(@, i)]
    IN  IF o.pc # "running" THEN o1
        ELSE IF outcome = "raise" THEN Raise(o1)
        ELSE IF \A k \in DOMAIN o1.child : o1.child[k] = "done"
        THEN Return(o1, GatherResult(o1))
        ELSE o1

fanFrame == <<breakerVars, fb, checkVars, poolVars, cacheVars, mw, rg, pp>>

\* The lists of checks: up to MaxChecks different checks in any order.
IsItemList(s) == \A i, j \in DOMAIN s : i # j => s[i] # s[j]

InitFanout ==
    \E kind \in Kinds, mode \in Modes, optimize \in BOOLEAN,
       n \in 0..MaxChecks, max \in 1..MaxConcurrentChecks,
       pa \in Decisions, pb \in Decisions, pc \in Outcomes :
        \E items \in [1..n -> ItemIds] :
            /\ IsItemList(items)
            /\ kind # "check_hierarchy" => (mode = "all" /\ optimize)
            /\ LET o == NewOp(kind, mode, optimize, items)
                   other == NewOp("check_relations", "all", TRUE,
                                  IF Gathers(o) THEN <<"a">> ELSE << >>)
               IN  fan = NewFan(max, [a |-> pa, b |-> pb, c |-> pc],
                                [q1 |-> o, q2 |-> other])

\* The operations of a specification that does not exercise them.
NoFanout ==
    fan = NewFan(1, [a |-> "False", b |-> "False", c |-> "False"],
                 [c \in Callers |-> Return(NewOp("check_relations", "all", TRUE, << >>), NoRet)])

\* The operation of caller c is called.
FanBegin(c) ==
    /\ fan.ops[c].pc = "idle"
    /\ fan' = [fan EXCEPT !.ops[c] = BeginOp(@)]
    /\ UNCHANGED fanFrame

\* The next task of the gather of caller c starts: it enters the semaphore
\* or queues for it.
ChildStart(c) ==
    /\ fan.ops[c].pc # "idle"
    /\ Gathers(fan.ops[c])
    /\ \E i \in DOMAIN fan.ops[c].child :
        /\ fan.ops[c].child[i] = "new"
        /\ \A j \in 1..(i - 1) : fan.ops[c].child[j] # "new"
        /\ fan' = FanAcquire(fan, c, i)
    /\ UNCHANGED fanFrame

\* A check in flight under the semaphore ends.
ChildFinish(c) ==
    /\ \E i \in DOMAIN fan.ops[c].child :
        /\ fan.ops[c].child[i] = "inflight"
        /\ LET outcome == fan.policy[fan.ops[c].items[i]]
               f1 == [fan EXCEPT !.ops[c] = GatheredStep(@, i, outcome)]
           IN  fan' = FanRelease(f1)
    /\ UNCHANGED fanFrame

\* The check a sequential check_hierarchy is waiting for ends.
SeqStep(c) ==
    /\ fan.ops[c].pc = "running"
    /\ \E i \in DOMAIN fan.ops[c].child :
        /\ fan.ops[c].child[i] = "calling"
        /\ fan' = [fan EXCEPT !.ops[c] =
                        SequentialStep(@, i, fan.policy[fan.ops[c].items[i]])]
    /\ UNCHANGED fanFrame

NextFanout ==
    \/ \E c \in Callers : FanBegin(c)
    \/ \E c \in Callers : ChildStart(c)
    \/ \E c \in Callers : ChildFinish(c)
    \/ \E c \in Callers : SeqStep(c)

-----------------------------------------------------------------------------
(* get_authorized_resource (dependencies.py)                               *)
(* One call of the dependency: the fetch, the object id, the relation      *)
(* check through check_decision, and what the dependency ends with.        *)

\* What resource_fetcher returns: None, or a resource (one of them falsy).
NoResource == "None"
Resources == {"doc1", "doc2", "empty"}

\* The object_id argument: a callable, a string, or None (the path parameter
\* "id" is used, "" if the route has none).
ObjectIdArgs == {"callable", "static", "unset"}
PathIds == {"", "7"}

\* The object id the check is made for.
ResolveObjectId(g) ==
    CASE g.object_id = "callable" -> "from_callable"
      [] g.object_id = "static" -> "from_argument"
      [] OTHER -> g.path_id

\* The call before it starts.
NewGuard(fetched, fetcher_raises, object_id, path_id, decision) ==
    [fetched |-> fetched, fetcher_raises |-> fetcher_raises, object_id |-> object_id,
     path_id |-> path_id, decision |-> decision,
     pc |-> "called", trace |-> << >>, checked_id |-> "none",
     status |-> 0, returned |-> NoResource, exc |-> FALSE]

\* A mutation of GuardFetch: the test for None is left out.
GuardFetchCheckFirst(g) ==
    IF g.fetcher_raises
    THEN [g EXCEPT !.pc = "done", !.exc = TRUE, !.trace = Append(@, "fetch")]
    ELSE [g EXCEPT !.pc = "checking", !.trace = @ \o <<"fetch", "check">>,
                   !.checked_id = ResolveObjectId(g)]

\* The dependency up to its await of check_decision: the fetch, the 404, the
\* object id.
GuardFetch(g) ==
    IF g.fetcher_raises
    THEN [g EXCEPT !.pc = "done", !.exc = TRUE, !.trace = Append(@, "fetch")]
    ELSE IF g.fetched = NoResource
    THEN [g EXCEPT !.pc = "done", !.status = 404, !.trace = Append(@, "fetch")]
    ELSE [g EXCEPT !.pc = "checking", !.trace = @ \o <<"fetch", "check">>,
                   !.checked_id = ResolveObjectId(g)]

\* The dependency from the outcome of check_decision to its end.
GuardResume(g) ==
    CASE g.decision = "raise" -> [g EXCEPT !.pc = "done", !.exc = TRUE]
      [] g.decision = "True" -> [g EXCEPT !.pc = "done", !.returned = g.fetched]
      [] OTHER -> [g EXCEPT !.pc = "done", !.status = 403]

guardFrame == <<breakerVars, fb, checkVars, poolVars, cacheVars, mw, fan, pp>>

InitGuard ==
    \E fetched \in Resources \cup {NoResource}, fetcher_raises \in BOOLEAN,
       object_id \in ObjectIdArgs, path_id \in PathIds, decision \in Outcomes :
        rg = NewGuard(fetched, fetcher_raises, object_id, path_id, decision)

\* The dependency of a specification that does not exercise it.
NoGuard ==
    rg = [NewGuard(NoResource, FALSE, "unset", "", "False") EXCEPT !.pc = "done"]

DoGuardFetch ==
    /\ rg.pc = "called"
    /\ rg' = GuardFetch(rg)
    /\ UNCHANGED guardFrame

DoGuardResume ==
    /\ rg.pc = "checking"
    /\ rg' = GuardResume(rg)
    /\ UNCHANGED guardFrame

NextGuard ==
    \/ DoGuardFetch
    \/ DoGuardResume

-----------------------------------------------------------------------------
(* _policy_path_heuristic and _resolve_policy_path (dependencies.py)       *)
(* Strings are sequences of characters; the root and the method are copied *)
(* into the result as they are and stand as one element each.              *)

MaxRouteLen == 5

\* The characters of a route pattern.
Chars == {"/", "{", "}", "a"}

PolicyRoots == {"myapp", "my.app"}
PolicyMethods == {"GET", "POST"}

\* str.strip("/"): the slashes at both ends are removed.
RECURSIVE LStrip(_)
LStrip(s) == IF s # << >> /\ Head(s) = "/" THEN LStrip(Tail(s)) ELSE s

RECURSIVE RStrip(_)
RStrip(s) ==
    IF s # << >> /\ s[Len(s)] = "/" THEN RStrip(SubSeq(s, 1, Len(s) - 1)) ELSE s

StripSlashes(s) == RStrip(LStrip(s))

\* str.split("/"): the pieces between the slashes, the empty ones included;
\* cur is the piece being read.
RECURSIVE SplitSlash(_, _)
SplitSlash(s, cur) ==
    IF s = << >> THEN <<cur>>
    ELSE IF Head(s) = "/" THEN <<cur>> \o SplitSlash(Tail(s), << >>)
    ELSE SplitSlash(Tail(s), Append(cur, Head(s)))

\* segment.startswith("{") and segment.endswith("}").
IsParam(segment) ==
    segment # << >> /\ Head(segment) = "{" /\ segment[Len(segment)] = "}"

\* A mutation of EmitSegment: every segment that starts with "{" is taken
\* for a parameter.
EmitSegmentStartOnly(segment) ==
    IF segment # << >> /\ Head(segment) = "{"
    THEN <<"_", "_">> \o SubSeq(segment, 2, Len(segment) - 1)
    ELSE segment

\* The loop body: f"__{segment[1:-1]}" for a parameter, the segment itself
\* otherwise.
EmitSegment(segment) ==
    IF IsParam(segment)
    THEN <<"_", "_">> \o SubSeq(segment, 2, Len(segment) - 1)
    ELSE segment

\* The loop: empty segments are skipped.
RECURSIVE ResultParts(_)
ResultParts(segments) ==
    IF segments = << >> THEN << >>
    ELSE IF Head(segments) = << >> THEN ResultParts(Tail(segments))
    ELSE <<EmitSegment(Head(segments))>> \o ResultParts(Tail(segments))

\* ".".join(parts).
RECURSIVE JoinDots(_)
JoinDots(parts) ==
    IF parts = << >> THEN << >>
    ELSE IF Len(parts) = 1 THEN Head(parts)
    ELSE Head(parts) \o <<".">> \o JoinDots(Tail(parts))

\* _policy_path_heuristic.
PolicyPathHeuristic(path) ==
    IF path = << >> \/ path = <<"/">> THEN << >>
    ELSE LET result_parts == ResultParts(SplitSlash(StripSlashes(path), << >>))
         IN  IF result_parts = << >> THEN << >>
             ELSE <<".">> \o JoinDots(result_parts)

\* _resolve_policy_path: f"{root}.{method}{heuristic}".
ResolvePolicyPath(root, method, path) ==
    <<root, ".", method>> \o PolicyPathHeuristic(path)

pathFrame == <<breakerVars, fb, checkVars, poolVars, cacheVars, mw, fan, rg>>

\* The arguments of the calls, and the results of the calls made so far.
NewResolve(root, method, path) ==
    [root |-> root, method |-> method, path |-> path, results |-> << >>]

InitResolve ==
    \E root \in PolicyRoots, method \in PolicyMethods, n \in 0..MaxRouteLen :
        \E path \in [1..n -> Chars] :
            pp = NewResolve(root, method, path)

\* The resolver of a specification that does not exercise it.
NoResolve == pp = NewResolve("myapp", "GET", << >>)

\* TopazConfig.policy_path_for / the middleware resolve the path; twice, to
\* compare the results.
DoResolve ==
    /\ Len(pp.results) < 2
    /\ pp' = [pp EXCEPT !.results =
                  Append(@, ResolvePolicyPath(pp.root, pp.method, pp.path))]
    /\ UNCHANGED pathFrame

NextResolve == DoResolve

\* The objects of the later sections, not exercised.
NoRest == NoFanout /\ NoGuard /\ NoResolve

NoExt == NoPool /\ NoCache /\ NoMiddleware /\ NoRest

-----------------------------------------------------------------------------
(* The specifications *)

Init == InitBreaker /\ fb = NoFallbackCall /\ NoCheck /\ NoExt

Next ==
    \/ DoRecordSuccess
    \/ DoRecordFailure
    \/ DoShouldAllowRequest
    \/ DoReset
    \/ Tick

Spec == Init /\ [][Next]_vars

InitSpecFallback == InitBreaker /\ InitFallback /\ NoCheck /\ NoExt

NextFallback == ApplyFallback

SpecFallback == InitSpecFallback /\ [][NextFallback]_vars

InitSpecCheck == InitBreaker /\ fb = NoFallbackCall /\ InitCheck /\ NoExt

SpecCheck == InitSpecCheck /\ [][NextCheck]_vars

InitSpecPool ==
    /\ InitBreaker /\ fb = NoFallbackCall /\ NoCheck /\ InitPool /\ NoCache /\ NoMiddleware
    /\ NoRest

SpecPool == InitSpecPool /\ [][NextPool]_vars

InitSpecCache ==
    /\ InitBreaker /\ fb = NoFallbackCall /\ NoCheck /\ NoPool /\ InitCache /\ NoMiddleware
    /\ NoRest

SpecCache == InitSpecCache /\ [][NextCache]_vars

InitSpecMiddleware ==
    /\ InitBreaker /\ fb = NoFallbackCall /\ NoCheck /\ NoPool /\ NoCache /\ InitMiddleware
    /\ NoRest

SpecMiddleware == InitSpecMiddleware /\ [][NextMiddleware]_vars

InitSpecFanout ==
    /\ InitBreaker /\ fb = NoFallbackCall /\ NoCheck /\ NoPool /\ NoCache /\ NoMiddleware
    /\ InitFanout /\ NoGuard /\ NoResolve

SpecFanout == InitSpecFanout /\ [][NextFanout]_vars

InitSpecGuard ==
    /\ InitBreaker /\ fb = NoFallbackCall /\ NoCheck /\ NoPool /\ NoCache /\ NoMiddleware
    /\ NoFanout /\ InitGuard /\ NoResolve

SpecGuard == InitSpecGuard /\ [][NextGuard]_vars

InitSpecResolve ==
    /\ InitBreaker /\ fb = NoFallbackCall /\ NoCheck /\ NoPool /\ NoCache /\ NoMiddleware
    /\ NoFanout /\ NoGuard /\ InitResolve

SpecResolve == InitSpecResolve /\ [][NextResolve]_vars

\* The event loop runs every task that is ready, and every check ends.
SpecFanoutFair == InitSpecFanout /\ [][NextFanout]_vars /\ WF_vars(NextFanout)

\* The breaker's methods in any order, for every choice of thresholds from 1
\* up to those of the modelled instance.
InitSpecBreakers ==
    /\ \E ft \in 1..FailureThreshold, st \in 1..SuccessThreshold,
          hm \in 1..HalfOpenMaxRequests :
          cb = [InitialBreaker EXCEPT !.failure_threshold = ft,
                                      !.success_threshold = st,
                                      !.half_open_max_requests = hm]
    /\ okrun = 0
    /\ opened_at = None
    /\ lock = FALSE
    /\ now = 0
    /\ last = [op |-> "init", ret |-> FALSE, exc |-> FALSE, called |-> FALSE, cbo |-> "unset"]
    /\ streak = 0
    /\ admitted = 0
    /\ fb = NoFallbackCall
    /\ NoCheck
    /\ NoExt

SpecBreakers == InitSpecBreakers /\ [][Next]_vars

\* check_decision under a breaker constructed with the default thresholds,
\* without a fresh cache, so that every call is for an uncached key.
InitSpecRecover ==
    /\ cb = DefaultBreaker
    /\ okrun = 0
    /\ opened_at = None
    /\ lock = FALSE
    /\ now = 0
    /\ last = [op |-> "init", ret |-> FALSE, exc |-> FALSE, called |-> FALSE, cbo |-> "unset"]
    /\ streak = 0
    /\ admitted = 0
    /\ fb = NoFallbackCall
    /\ cfg \in {c \in CheckConfigs : c.circuit_breaker /\ ~c.decision_cache}
    /\ fresh = [k \in Keys |-> NoEntry]
    /\ stale = [k \in Keys |-> NoEntry]
    /\ req = [r \in Requests |-> IdleRequest]
    /\ out = IdleRequest
    /\ NoExt

\* Callers keep calling check_decision, every authorizer call ends, and time
\* passes.
SpecRecover ==
    /\ InitSpecRecover /\ [][NextCheck]_vars
    /\ WF_vars(\E r \in Requests : StartCheck(r))
    /\ WF_vars(\E r \in Requests : CallReturns(r) \/ CallRaises(r))
    /\ WF_vars(Elapse)

TypeOK ==
    /\ cb.state \in CircuitState
    /\ cb.failure_count \in 0..MaxFailureCount
    /\ cb.success_count \in 0..SuccessThreshold
    /\ cb.open_since \in {None} \cup 0..MaxTime
    /\ now \in 0..MaxTime

-----------------------------------------------------------------------------
(* The breaker's state machine: claims C1 to C4 and C9, under Spec *)

\* C1: from CLOSED, a record_failure opens the breaker exactly when it is the
\* FailureThreshold-th failure in a row (never earlier, and nothing else opens
\* a CLOSED breaker); a record_success in CLOSED leaves it CLOSED with the
\* failure count at zero, so the run of failures starts again.
C1_OpensAtThreshold ==
    [][ /\ (cb.state = CLOSED /\ last'.op = "record_failure")
            => /\ (cb'.state = OPEN <=> streak' = FailureThreshold)
               /\ streak' <= FailureThreshold
               /\ cb'.state \in {CLOSED, OPEN}
        /\ (cb.state = CLOSED /\ cb'.state = OPEN) => last'.op = "record_failure"
        /\ (cb.state = CLOSED /\ last'.op = "record_success")
            => /\ cb'.state = CLOSED
               /\ cb'.failure_count = 0
      ]_vars

\* C1 witness: the breaker opened on the FailureThreshold-th failure in a row
\* after an earlier success had been recorded.
C1_Witness ==
    /\ cb.state = OPEN
    /\ last.op = "record_failure"
    /\ streak = FailureThreshold
    /\ cb.last_success_time # None
    /\ opened_at = now

\* C2: while OPEN, should_allow_request answers False and changes nothing
\* before recovery_timeout has elapsed since _open_since; once it has elapsed
\* the call answers True, moves to HALF_OPEN and takes the first half-open
\* slot.  Only should_allow_request moves OPEN to HALF_OPEN; record_success and
\* record_failure leave an OPEN breaker OPEN with _open_since unchanged.
C2_LazyHalfOpen ==
    [][ cb.state = OPEN =>
        /\ (last'.op = "should_allow_request" /\ now - cb.open_since < RecoveryTimeout)
            => (~last'.ret /\ ~last'.exc /\ cb' = cb)
        /\ (last'.op = "should_allow_request" /\ now - cb.open_since >= RecoveryTimeout)
            => /\ last'.ret /\ ~last'.exc
               /\ cb'.state = HALF_OPEN
               /\ cb'.half_open_requests = 1
        /\ cb'.state = HALF_OPEN => last'.op = "should_allow_request"
        /\ last'.op \in {"record_success", "record_failure"}
            => (cb'.state = OPEN /\ cb'.open_since = cb.open_since)
      ]_vars

\* C2 witness: the call made exactly when recovery_timeout had elapsed moved
\* the breaker to HALF_OPEN.
C2_Witness ==
    /\ cb.state = HALF_OPEN
    /\ last.op = "should_allow_request"
    /\ last.ret
    /\ cb.half_open_requests = 1
    /\ now - cb.open_since = RecoveryTimeout

\* C3: in HALF_OPEN the SuccessThreshold-th record_success in a row closes the
\* breaker with both counters at zero (an earlier one does not); any
\* record_failure reopens it and stamps _open_since with the current time, and
\* an OPEN breaker admits a probe only once recovery_timeout has elapsed
\* since it last opened.
C3_HalfOpenOutcome ==
    [][ /\ (cb.state = HALF_OPEN /\ last'.op = "record_success")
            => /\ (cb'.state = CLOSED <=> okrun + 1 = SuccessThreshold)
               /\ cb'.state \in {CLOSED, HALF_OPEN}
               /\ cb'.state = CLOSED
                    => (cb'.failure_count = 0 /\ cb'.success_count = 0)
        /\ (cb.state = HALF_OPEN /\ last'.op = "record_failure")
            => /\ cb'.state = OPEN
               /\ cb'.open_since = now
               /\ cb'.half_open_requests = 0
        /\ (cb.state = OPEN /\ last'.op = "should_allow_request" /\ last'.ret)
            => now - opened_at >= RecoveryTimeout
      ]_vars

\* C3 witness: a probe was admitted after a failed half-open episode, a full
\* recovery_timeout after the breaker reopened.
C3_Witness ==
    /\ cb.state = HALF_OPEN
    /\ last.op = "should_allow_request"
    /\ last.ret
    /\ cb.open_since # None
    /\ cb.open_since > 0
    /\ cb.last_failure_time = cb.open_since
    /\ cb.failure_count > FailureThreshold
    /\ now - opened_at >= RecoveryTimeout

\* C4: in one half-open episode at most HalfOpenMaxRequests calls of
\* should_allow_request are answered True, the call that made the transition
\* included; once that many were admitted every further call is answered False.
C4_HalfOpenLimit ==
    [][ /\ admitted' <= HalfOpenMaxRequests
        /\ (cb.state = HALF_OPEN /\ admitted >= HalfOpenMaxRequests
                /\ last'.op = "should_allow_request")
            => (~last'.ret /\ cb' = cb)
      ]_vars

\* C4 witness: the half-open episode is full and a further call was refused.
C4_Witness ==
    /\ cb.state = HALF_OPEN
    /\ admitted = HalfOpenMaxRequests
    /\ last.op = "should_allow_request"
    /\ ~last.ret

\* C9: when the on_state_change callback raises, the method that made the
\* transition still returns normally, the transition is applied in full
\* (with what the method does after it), and the lock is free afterwards.
C9_CallbackErrorCaught ==
    [][ (last'.called /\ last'.cbo = "raise") =>
        /\ ~last'.exc
        /\ cb'.state # cb.state
        /\ ~lock'
        /\ cb'.state = OPEN
            => (cb'.open_since = now /\ cb'.half_open_requests = 0)
        /\ cb'.state = CLOSED
            => (cb'.failure_count = 0 /\ cb'.success_count = 0 /\ cb'.open_since = None)
        /\ cb'.state = HALF_OPEN
            => (last'.ret /\ cb'.half_open_requests = 1)
        /\ last'.op = "reset"
            => cb' = [InitialBreaker EXCEPT !.state = CLOSED]
      ]_vars

\* C9 witness: a raising callback was invoked by the transition to HALF_OPEN
\* and the caller got its answer.
C9_Witness ==
    /\ last.called
    /\ last.cbo = "raise"
    /\ last.op = "should_allow_request"
    /\ last.ret
    /\ ~last.exc
    /\ cb.state = HALF_OPEN
    /\ ~lock

-----------------------------------------------------------------------------
(* The fallback decision: claims C7 and C8, under SpecFallback *)

\* Some no_stale_for pattern matches the policy path of the call.
NoStaleMatch ==
    \E i \in 1..Len(fb.no_stale_for) : FnMatch(fb.policy_path, fb.no_stale_for[i])

C8_NoStaleFor ==
    (fb.done /\ NoStaleMatch) =>
        /\ fb.fallback # "custom" =>
              fb.out.ret = (IF fb.fallback \in {"allow", "cache_then_allow"}
                            THEN "True" ELSE "False")
        /\ fb.fallback = "custom" =>
              /\ fb.out.custom
              /\ fb.out.received = NoDecision
              /\ fb.behaviour = "echo" => fb.out.ret = "False"

\* C8 witness: a stale allow was withheld because the second pattern of the
\* list matched the path.
C8_Witness ==
    /\ fb.done
    /\ fb.cached_decision = "True"
    /\ fb.fallback = "cache_then_deny"
    /\ Len(fb.no_stale_for) = 2
    /\ ~FnMatch(fb.policy_path, fb.no_stale_for[1])
    /\ FnMatch(fb.policy_path, fb.no_stale_for[2])
    /\ fb.out.ret = "False"

-----------------------------------------------------------------------------
(* check_decision and the breaker: claims C5, C6 and C10, under SpecCheck *)

\* The stale decision held for a key and still young enough to be served.
StaleView(key) ==
    IF /\ cfg.circuit_breaker
       /\ cfg.serve_stale_cache
       /\ stale[key].value # NoDecision
       /\ now - stale[key].at <= StaleCacheTtl
    THEN stale[key].value
    ELSE NoDecision

\* What claim C5 says of a step that completes a call.
DeniedIsFallback ==
    /\ out'.calls = 0
    /\ out'.succ = 0 /\ out'.fails = 0
    /\ cb' = cb
    /\ out'.exc = NoError
    /\ out'.ret \in Decisions
    /\ out'.stale_cached = StaleView(KeyOf(out'.path))
    /\ cfg.fallback # "custom" =>
          out'.ret = GetFallbackDecision(cfg.fallback, cfg.no_stale_for, out'.path,
                                         StaleView(KeyOf(out'.path)), "deny").ret
    /\ cfg.fallback = "custom" =>
          out'.received = NoStaleFilter(cfg.no_stale_for, out'.path,
                                        StaleView(KeyOf(out'.path)))

\* C5: a check_decision call to which should_allow_request answered False
\* issues no authorizer call, returns the fallback decision computed from the
\* stale value of its own key, and leaves the breaker as it was.
C5_DeniedIsFallback ==
    [][ (out'.pc = "done" /\ out'.denied) => DeniedIsFallback ]_vars

\* C5 holds of every refused call whose custom fallback callable did not raise.
C5_UnlessCustomRaises ==
    [][ (out'.pc = "done" /\ out'.denied /\ ~out'.custom_raised) => DeniedIsFallback ]_vars

\* What claim C6 says of a step that completes a call.
AuthorizerErrorHandled ==
    IF cfg.circuit_breaker /\ IsFailureException(out'.err)
    THEN /\ out'.fails = 1
         /\ cb'.failure_count = cb.failure_count + 1
         /\ out'.exc = NoError
         /\ out'.ret \in Decisions
    ELSE /\ out'.exc = out'.err
         /\ out'.fails = 0
         /\ cb'.failure_count = cb.failure_count
         /\ cb'.state = cb.state

\* C6: when the authorizer call raises, a configured breaker that classifies
\* the error as a failure records exactly one failure and check_decision
\* returns the fallback decision; otherwise the error propagates and the
\* breaker's failure count and state are unchanged.
C6_AuthorizerError ==
    [][ (out'.pc = "done" /\ out'.err # NoError) => AuthorizerErrorHandled ]_vars

\* C6 holds of every failed call whose custom fallback callable did not raise.
C6_UnlessCustomRaises ==
    [][ (out'.pc = "done" /\ out'.err # NoError /\ ~out'.custom_raised)
            => AuthorizerErrorHandled ]_vars

\* C10: a call during which the on_fallback callback or a custom fallback
\* callable raised still returns a decision, and records no breaker failure
\* other than the one for a failed authorizer call.
C10_FallbackErrorsCaught ==
    (out.pc = "done" /\ (out.custom_raised \/ out.on_fallback_raised)) =>
        /\ out.exc = NoError
        /\ out.ret \in Decisions
        /\ out.fails = (IF out.err # NoError /\ IsFailureException(out.err) THEN 1 ELSE 0)

\* The half of C10 that holds: an exception of on_fallback alone is caught.
C10_OnFallbackCaught ==
    (out.pc = "done" /\ out.on_fallback_raised /\ ~out.custom_raised) =>
        /\ out.exc = NoError
        /\ out.ret \in Decisions
        /\ out.fails = (IF out.err # NoError /\ IsFailureException(out.err) THEN 1 ELSE 0)

\* C11: reset in any state returns normally and leaves the breaker CLOSED with
\* the failure, success and half-open request counts at zero and open_since,
\* last_failure_time and last_success_time cleared; a configured
\* on_state_change callback is invoked exactly when the state before the
\* reset was not CLOSED.
C11_ResetClears ==
    [][ last'.op = "reset" =>
        /\ ~last'.exc
        /\ cb' = InitialBreaker
        /\ last'.cbo # "unset" => (last'.called <=> cb.state # CLOSED)
        /\ last'.cbo = "unset" => ~last'.called
      ]_vars

\* C11 witness: a reset of a breaker that was not CLOSED, with failures and
\* timestamps recorded, has invoked the callback.
C11_Witness ==
    /\ last.op = "reset"
    /\ last.called
    /\ cb = InitialBreaker
    /\ opened_at # None

\* C11 witness of the other half: a reset of a CLOSED breaker with a callback
\* configured.
C11_WitnessClosed ==
    /\ last.op = "reset"
    /\ last.cbo # "unset"
    /\ ~last.called


\* The connections in the idle queue, and how often one occurs in it.
IdleSet == {pool.idle[i] : i \in 1..Len(pool.idle)}
IdleCount(c) == Cardinality({i \in 1..Len(pool.idle) : pool.idle[i] = c})

\* C12: while the pool is open every live connection is either once in the
\* idle queue or in the busy set, never both and never neither, and nothing
\* else is in them; the connections that callers hold unreleased are in the
\* busy set, and no two callers ever hold the same connection.
C12_IdleXorBusy ==
    /\ ~pool.closed =>
        /\ \A c \in pool.connections :
              /\ (c \in IdleSet) # (c \in pool.busy)
              /\ IdleCount(c) <= 1
        /\ IdleSet \cup pool.busy \subseteq pool.connections
        /\ \A t \in Tasks : task[t].pc = "holding" => task[t].conn \in pool.busy
        /\ pool.busy = {task[t].conn : t \in {u \in Tasks : task[u].pc = "holding"}}
    /\ \A t, u \in Tasks :
          (t # u /\ task[t].pc = "holding" /\ task[u].pc = "holding")
              => task[t].conn # task[u].conn

\* C12 witness: an acquire has just reused an idle connection while another
\* caller holds a connection.
C12_Witness ==
    /\ ~pool.closed
    /\ plast.op = "acquire"
    /\ plast.exc = NoError
    /\ ~plast.created
    /\ \A t \in Tasks : task[t].pc = "holding"
    /\ Cardinality(pool.busy) = 2

\* C13: the number of live connections never exceeds max_connections.
C13_PoolBounded ==
    Cardinality(pool.connections) <= pool.cfg.max_connections

\* C13 holds of every pool whose min_connections is at most max_connections.
C13_UnlessMinAboveMax ==
    pool.cfg.min_connections <= pool.cfg.max_connections
        => Cardinality(pool.connections) <= pool.cfg.max_connections

\* The permits of the semaphore that no caller holds: its value and the
\* permits handed to callers that have not resumed yet.
Granted(tk) == {t \in Tasks : tk[t].pc = "granted"}
Sleeping(tk) == {t \in Tasks : tk[t].pc = "waiting"}
PermitsHeld(p, tk) == p.cfg.max_connections - p.value - Cardinality(Granted(tk))

\* C14: a release of a connection in the busy set frees exactly one permit,
\* healthy or not, and hands it to a caller queued on the semaphore if
\* there is one; that caller, resumed, gets the first idle connection or,
\* with the idle queue empty, a newly created one, and fails only if the
\* creation raises.  An acquire that gives up raises TimeoutError no earlier
\* than acquire_timeout after it started, still without a permit, and
\* creates no connection; a caller is never left waiting past its deadline.
C14_ReleaseFreesPermit ==
    [][ /\ (plast'.op = "release" /\ plast'.known) =>
            /\ PermitsHeld(pool', task') = PermitsHeld(pool, task) - 1
            /\ Sleeping(task) # {} =>
                  /\ pool'.value = pool.value
                  /\ \E w \in Sleeping(task) : Granted(task') = Granted(task) \cup {w}
            /\ Sleeping(task) = {} => pool'.value = pool.value + 1
        /\ (plast'.op = "acquire" /\ plast'.waited /\ plast'.exc = NoError) =>
            /\ task[plast'.task].pc = "granted"
            /\ task'[plast'.task].pc = "holding"
            /\ task'[plast'.task].conn = plast'.conn
            /\ plast'.conn \in pool'.busy \ pool.busy
            /\ pool.idle # << >> => (plast'.conn = Head(pool.idle) /\ ~plast'.created)
            /\ pool.idle = << >> => (plast'.created /\ plast'.conn \notin pool.connections)
            /\ PermitsHeld(pool', task') = PermitsHeld(pool, task) + 1
        /\ (plast'.op = "acquire" /\ plast'.waited
                /\ plast'.exc \notin {NoError, "TimeoutError"}) =>
            /\ pool.idle = << >>
            /\ pool'.connections = pool.connections
            /\ PermitsHeld(pool', task') = PermitsHeld(pool, task)
        /\ (plast'.op = "acquire" /\ plast'.exc = "TimeoutError") =>
            /\ task[plast'.task].pc \in {"scheduled", "waiting"}
            /\ now >= task[plast'.task].deadline
            /\ task'[plast'.task].pc = "idle"
            /\ pool'.connections = pool.connections
            /\ pool'.next_id = pool.next_id
            /\ pool'.busy = pool.busy
            /\ pool'.value = pool.value
            /\ PermitsHeld(pool', task') = PermitsHeld(pool, task)
        /\ \A t \in Tasks : task'[t].pc \in {"scheduled", "waiting"} => now' <= task'[t].deadline
      ]_vars

\* C14 witness: a caller that was queued because max_connections connections
\* were busy has been resumed after the release of an unhealthy connection
\* and holds a newly created one.
C14_Witness ==
    /\ plast.op = "acquire"
    /\ plast.waited
    /\ plast.created
    /\ plast.exc = NoError
    /\ ~pool.closed
    /\ \E c \in ConnIds : c < plast.conn /\ ~pool.healthy[c] /\ c \notin pool.connections

\* C14 witness of the timeout: a queued caller gave up while every permit
\* was held.
C14_WitnessTimeout ==
    /\ plast.op = "acquire"
    /\ plast.waited
    /\ plast.exc = "TimeoutError"
    /\ pool.value = 0
    /\ Cardinality(pool.busy) = pool.cfg.max_connections

\* The connections that were marked unhealthy and have been released: the
\* healthy flag is only cleared by a holder, and a holder lets go of its
\* connection only by releasing it.
ReleasedUnhealthy ==
    {c \in ConnIds : /\ c < pool.next_id
                     /\ ~pool.healthy[c]
                     /\ \A t \in Tasks : ~(task[t].pc = "holding" /\ task[t].conn = c)}

\* C15: a connection released after being marked unhealthy is in none of
\* _connections, the idle queue and _busy, from the release on, and no later
\* acquire returns it.
C15_UnhealthyDiscarded ==
    /\ [](\A c \in ReleasedUnhealthy :
            c \notin pool.connections /\ c \notin IdleSet /\ c \notin pool.busy)
    /\ [][ (plast'.op = "acquire" /\ plast'.exc = NoError)
              => plast'.conn \notin ReleasedUnhealthy ]_vars

\* C15 witness: the release of an unhealthy connection to an open pool has
\* just discarded it.
C15_Witness ==
    /\ plast.op = "release"
    /\ plast.known
    /\ ~pool.closed
    /\ plast.conn \in ReleasedUnhealthy

\* C16: an acquire started once close() has marked the pool closed raises
\* RuntimeError in its first step: it does not initialize the pool, touch the
\* semaphore or its queue, create a connection or return one, and the caller
\* is not left in the call.
C16_AcquireAfterClose ==
    [][ (/\ pool.closed
         /\ plast'.op \in {"acquire", "acquire_wait"}
         /\ task[plast'.task].pc = "idle") =>
            /\ plast'.op = "acquire"
            /\ plast'.exc = "RuntimeError"
            /\ plast'.conn = NoConn
            /\ pool' = pool
            /\ task' = task
      ]_vars

\* C16 witness: an acquire on a closed pool has failed although the pool was
\* configured and a permit was free.
C16_Witness ==
    /\ plast.op = "acquire"
    /\ plast.exc = "RuntimeError"
    /\ pool.closed
    /\ pool.cfg.configured
    /\ pool.value > 0
    /\ task[plast.task].pc = "idle"

\* The connections that the last sweep removed.
Swept(op) == {op.closed[i] : i \in 1..Len(op.closed)}

\* C17: a sweep removes only connections that were in the idle queue with
\* an idle time above max_idle_time, leaves the busy set alone, leaves at
\* least min_connections live connections whenever it removes one, and
\* leaves the idle queue holding exactly the connections it did not remove,
\* in their order.
C17_SweepOnlyStaleIdle ==
    [][ plast'.op = "sweep" =>
        /\ Swept(plast') \subseteq IdleSet
        /\ \A c \in Swept(plast') : now - pool.last_used_at[c] > MaxIdleTime
        /\ Swept(plast') \cap pool.busy = {}
        /\ pool'.busy = pool.busy
        /\ pool'.connections = pool.connections \ Swept(plast')
        /\ Swept(plast') # {} => Cardinality(pool'.connections) >= pool.cfg.min_connections
        /\ pool'.idle = SelectSeq(pool.idle, LAMBDA c : c \notin Swept(plast'))
        /\ task' = task
      ]_vars

\* C17 witness: a sweep has removed a connection and kept another one that
\* was idle too long as well, to stay at min_connections.
C17_Witness ==
    /\ plast.op = "sweep"
    /\ plast.closed # << >>
    /\ pool.idle # << >>
    /\ now - pool.last_used_at[Head(pool.idle)] > MaxIdleTime

\* C17 witness with a busy connection: a sweep has removed an idle
\* connection while another one was held.
C17_WitnessBusy ==
    /\ plast.op = "sweep"
    /\ plast.closed # << >>
    /\ pool.busy # {}

\* In how many fields two lookups differ, None and the empty dict being the
\* same context.
FieldsDiffering(l, m) ==
    LET diff(x, y) == IF x = y THEN 0 ELSE 1
    IN  diff(l.identity_value, m.identity_value) + diff(l.policy_path, m.policy_path)
        + diff(l.decision, m.decision)
        + diff(Norm(l).resource_context, Norm(m).resource_context)

\* The entry of the cache d under the key of lookup l; asked only when there
\* is one.
EntryFor(d, l) == d.cache[PositionOf(d.cache, DecisionCacheKey(l))]
HasEntry(d, l) == PositionOf(d.cache, DecisionCacheKey(l)) # 0

\* C18: a get for a lookup returns the value of the most recent set for the
\* same (identity, policy path, decision name, resource context) while the
\* TTL of that set has not elapsed; once it has elapsed the get returns
\* absent and leaves no entry under the key; and a get never answers from an
\* entry stored for a lookup that differs from it in exactly one field.
C18_GetReturnsLatestSet ==
    [][ dlast'.op = "get" =>
        /\ (Norm(dlast'.lookup) = Norm(dc.probe) /\ dhist.value # NoDecision) =>
              /\ now <= dhist.at + CacheTtl => dlast'.ret = dhist.value
              /\ now > dhist.at + CacheTtl =>
                    (dlast'.ret = NoDecision /\ ~HasEntry(dc', dlast'.lookup))
        /\ dlast'.ret # NoDecision =>
              /\ HasEntry(dc, dlast'.lookup)
              /\ FieldsDiffering(EntryFor(dc, dlast'.lookup).by, dlast'.lookup) # 1
      ]_vars

\* What of C18 holds: the same, for gets that find under their key an entry
\* made by a set for the same lookup, which a set of an aliasing lookup has
\* not overwritten and a set on a full cache has not evicted.
C18_UnlessAliasedOrEvicted ==
    [][ dlast'.op = "get" =>
        /\ (/\ Norm(dlast'.lookup) = Norm(dc.probe)
            /\ dhist.value # NoDecision
            /\ HasEntry(dc, dlast'.lookup)
            /\ Norm(EntryFor(dc, dlast'.lookup).by) = Norm(dlast'.lookup)) =>
              /\ now <= dhist.at + CacheTtl => dlast'.ret = dhist.value
              /\ now > dhist.at + CacheTtl =>
                    (dlast'.ret = NoDecision /\ ~HasEntry(dc', dlast'.lookup))
        /\ dlast'.ret # NoDecision =>
              /\ HasEntry(dc, dlast'.lookup)
              /\ FieldsDiffering(EntryFor(dc, dlast'.lookup).by, dlast'.lookup) # 1
      ]_vars

\* A get that answered with the value an aliasing lookup had set.
C18_AliasedHit ==
    /\ dlast.op = "get"
    /\ dlast.ret # NoDecision
    /\ Norm(dlast.lookup) = Norm(dc.probe)
    /\ dhist.value # NoDecision
    /\ dlast.ret # dhist.value

\* A get that found nothing although the TTL of the last set had not elapsed.
C18_EvictedMiss ==
    /\ dlast.op = "get"
    /\ dlast.ret = NoDecision
    /\ Norm(dlast.lookup) = Norm(dc.probe)
    /\ dhist.value # NoDecision
    /\ now <= dhist.at + CacheTtl

\* C19: the cache never holds more than max_size entries, and after a set
\* the entry just set is in it.
C19_SizeBounded ==
    /\ Len(dc.cache) <= dc.max_size
    /\ dlast.op = "set" =>
          /\ HasEntry(dc, dlast.lookup)
          /\ EntryFor(dc, dlast.lookup).value = dlast.value
          /\ EntryFor(dc, dlast.lookup).expires_at = now + CacheTtl

\* C19 holds of every cache with max_size of at least 10.
C19_UnlessSmall ==
    dc.max_size >= 10 => C19_SizeBounded

\* A set on a full cache of max_size 10 that evicted the oldest entry.
C19_EvictionReached ==
    /\ dlast.op = "set"
    /\ dc.max_size = 10
    /\ Len(dc.cache) = 10
    /\ dc.cache[1].key # DecisionCacheKey(ScanLookup(1))
    /\ dc.cache[10].key = DecisionCacheKey(ScanLookup(1))

\* A request that matched a route, is not excluded, carries an identity, and
\* for which check_decision returned.
Decided(m) ==
    /\ m.pc = "done"
    /\ m.scope_type = "http"
    /\ m.route # "none"
    /\ ~IsExcluded(m)
    /\ m.identity = "user"
    /\ m.check \in Decisions

\* C20: for a request that matched a route, is not excluded and carries an
\* identity, the application is called exactly when check_decision returned
\* true; when it returned false the application is not called and the
\* response is the one of on_denied if configured, a 403 otherwise.
C20_HandlerIffAllowed ==
    Decided(mw) =>
        /\ mw.app_called <=> mw.check = "True"
        /\ mw.check = "False" =>
              /\ ~mw.app_called
              /\ mw.response = IF mw.on_denied = "unset" THEN "403" ELSE "on_denied"

\* C20 holds of every request during which neither the audit logger nor
\* on_denied raised; and the application is never called without a true
\* decision.
C20_UnlessCallbackRaises ==
    Decided(mw) =>
        /\ mw.app_called => mw.check = "True"
        /\ mw.check = "False" => ~mw.app_called
        /\ ~mw.exc =>
              /\ mw.app_called <=> mw.check = "True"
              /\ mw.check = "False" =>
                    mw.response = IF mw.on_denied = "unset" THEN "403" ELSE "on_denied"

\* A request allowed by check_decision that never reached the application.
C20_AllowedNotHandled ==
    /\ Decided(mw)
    /\ mw.check = "True"
    /\ ~mw.app_called
    /\ mw.exc

\* A request the middleware has to authorize: http, not excluded, a route
\* matched.
Guarded(m) ==
    /\ m.scope_type = "http"
    /\ ~IsExcluded(m)
    /\ m.route # "none"

\* The response of a denied request.
DeniedResponse(m) == IF m.on_denied = "unset" THEN "403" ELSE "on_denied"

\* C21: when check_decision raises for a request that is not excluded, the
\* request is answered as denied (403, or the response of on_denied), no
\* exception leaves the middleware and the application is not called.
C21_FailClosed ==
    (mw.pc = "done" /\ Guarded(mw) /\ mw.check = "raise") =>
        /\ ~mw.app_called
        /\ ~mw.exc
        /\ mw.response = DeniedResponse(mw)

\* C21 holds of every request during which neither the audit logger nor
\* on_denied raised, and a check that raised never lets the application run.
C21_UnlessCallbackRaises ==
    (mw.pc = "done" /\ Guarded(mw) /\ mw.check = "raise") =>
        /\ ~mw.app_called
        /\ mw.exc <=> (mw.audit_logger = "raise" \/ mw.on_denied = "raise")
        /\ ~mw.exc => mw.response = DeniedResponse(mw)

\* A check that raised, answered by a 403.
C21_Denied403 ==
    /\ mw.pc = "done"
    /\ Guarded(mw)
    /\ mw.check = "raise"
    /\ mw.identity = "user"
    /\ mw.response = "403"

\* A check that raised, answered by an exception of the audit logger.
C21_RaisedNot403 ==
    /\ mw.pc = "done"
    /\ Guarded(mw)
    /\ mw.check = "raise"
    /\ mw.audit_logger = "raise"
    /\ mw.exc
    /\ mw.response = NoResponse

\* A guarded request without an identity under the policy "deny".
DenyMissing(m) ==
    /\ m.pc = "done"
    /\ Guarded(m)
    /\ IdentityMissing(m)
    /\ m.on_missing_identity = "deny"

\* C22: under the policy "deny", a request that is not excluded and whose
\* identity provider yields None, an empty value or an error is answered
\* 401; no resource context is built, check_decision is not called and the
\* application is not called.
C22_DenyMissingIdentity ==
    DenyMissing(mw) =>
        /\ mw.response = "401"
        /\ ~mw.exc
        /\ ~mw.context_built
        /\ ~mw.check_called
        /\ ~mw.app_called

\* C22 holds of every request during which the audit logger did not raise;
\* no context, no check and no call of the application in any case.
C22_UnlessAuditRaises ==
    DenyMissing(mw) =>
        /\ ~mw.context_built
        /\ ~mw.check_called
        /\ ~mw.app_called
        /\ mw.exc <=> mw.audit_logger = "raise"
        /\ ~mw.exc => mw.response = "401"

\* A request without an identity answered 401, for a provider that raised.
C22_Answered401 ==
    /\ DenyMissing(mw)
    /\ mw.identity = "raise"
    /\ mw.response = "401"

\* A request without an identity that got no 401.
C22_No401 ==
    /\ DenyMissing(mw)
    /\ mw.response = NoResponse
    /\ mw.exc

\* A guarded request without an identity under the policy "anonymous", past
\* the building of its resource context.
AnonymousChecked(m) ==
    /\ m.pc = "done"
    /\ Guarded(m)
    /\ IdentityMissing(m)
    /\ m.on_missing_identity = "anonymous"
    /\ m.check_called

\* C23: under the policy "anonymous", a request without an identity is not
\* answered 401, the anonymous identity is substituted, the check is carried
\* out with the anonymous identity and the application is called exactly
\* when the decision is true.
C23_AnonymousChecked ==
    AnonymousChecked(mw) =>
        /\ mw.response # "401"
        /\ mw.anonymous
        /\ mw.check_identity = "anonymous"
        /\ mw.app_called <=> mw.check = "True"

\* What holds instead: no 401 and the substitution is made, but the check is
\* carried out with the identity of the provider; for a provider that
\* returns None or raises, the check raises and the request is denied.
C23_CheckedAsProvider ==
    AnonymousChecked(mw) =>
        /\ mw.response # "401"
        /\ mw.anonymous
        /\ mw.check_identity = "provider"
        /\ mw.app_called => mw.check = "True"
        /\ mw.identity \in {"none", "raise"} => (mw.check = "raise" /\ ~mw.app_called)

\* A request of a provider that returned None, denied under "anonymous".
C23_AnonymousDenied ==
    /\ AnonymousChecked(mw)
    /\ mw.identity = "none"
    /\ mw.audit_logger = "unset"
    /\ mw.response = "403"

\* Excluded as the exclusion rule is stated: the method is in the configured
\* exclude set, by default OPTIONS and HEAD, or the path matches an exclude
\* pattern, or the matched route carries a skip marker.
SaidExcluded(m) ==
    \/ m.method \in (IF m.exclude_methods = NoArg THEN {"OPTIONS", "HEAD"}
                     ELSE ExcludeMethods(m.exclude_methods))
    \/ m.path_excluded
    \/ m.route \in {"skip_marker", "skip_dependency"}

C24_WitnessSkipMarker ==
    /\ mw.pc = "done"
    /\ mw.scope_type = "http"
    /\ mw.method = "GET"
    /\ mw.exclude_methods = NoArg
    /\ ~mw.path_excluded
    /\ mw.route = "skip_dependency"
    /\ mw.app_called

C24_WitnessGuarded ==
    /\ mw.pc = "done"
    /\ Guarded(mw)
    /\ mw.method = "OPTIONS"
    /\ mw.app_called

\* The operation of the first request, and the decision of each of its
\* checks.
Op1 == fan.ops["q1"]
Truth(i) == fan.policy[Op1.items[i]]

\* The operation returned (it did not raise).
Returned(o) == o.pc = "done" /\ ~o.exc

\* The checks completed in another order than they were given.
OutOfOrder(o) == \E k \in DOMAIN o.order : o.order[k] # k

\* C25: a check_hierarchy in mode "all" returns allowed exactly when every
\* check is true and reports as denied_at the object type of the first
\* failing check of the input list; in mode "any" it returns allowed exactly
\* when some check is true; this for optimize false and true alike, in
\* whatever order the concurrent checks complete.
C25_HierarchyAllAny ==
    (Op1.kind = "check_hierarchy" /\ Op1.mode \in {"all", "any"} /\ Returned(Op1)) =>
        LET failing == {i \in DOMAIN Op1.items : Truth(i) # "True"}
            passing == {i \in DOMAIN Op1.items : Truth(i) = "True"}
        IN  IF Op1.mode = "all"
            THEN /\ Op1.ret.allowed = "True" <=> failing = {}
                 /\ Op1.ret.allowed = "False" <=> failing # {}
                 /\ failing # {} =>
                        Op1.ret.denied_at =
                            ObjType(Op1.items[CHOOSE i \in failing : \A j \in failing : i <= j])
                 /\ failing = {} => Op1.ret.denied_at = "none"
            ELSE /\ Op1.ret.allowed = "True" <=> passing # {}
                 /\ Op1.ret.allowed = "False" <=> passing = {}

\* A concurrent "all" whose checks completed out of order, two of them
\* failing, of different object types.
C25_Witness ==
    /\ Op1.kind = "check_hierarchy"
    /\ Op1.mode = "all"
    /\ Op1.optimize
    /\ Returned(Op1)
    /\ OutOfOrder(Op1)
    /\ Len(Op1.items) = 3
    /\ Truth(1) = "True"
    /\ Truth(2) = "False"
    /\ Truth(3) = "False"
    /\ ObjType(Op1.items[2]) # ObjType(Op1.items[3])
    /\ Op1.ret.denied_at = ObjType(Op1.items[2])

\* A sequential "all" that stopped at its first failing check.
C25_WitnessSequential ==
    /\ Op1.kind = "check_hierarchy"
    /\ Op1.mode = "all"
    /\ ~Op1.optimize
    /\ Returned(Op1)
    /\ Len(Op1.items) = 3
    /\ Truth(1) = "True"
    /\ Truth(2) = "False"
    /\ Op1.ret.denied_at = ObjType(Op1.items[2])
    /\ Op1.child[3] = "new"

\* A concurrent "any" allowed by its last check, completed out of order.
C25_WitnessAny ==
    /\ Op1.kind = "check_hierarchy"
    /\ Op1.mode = "any"
    /\ Op1.optimize
    /\ Returned(Op1)
    /\ OutOfOrder(Op1)
    /\ Len(Op1.items) = 2
    /\ Truth(1) = "False"
    /\ Truth(2) = "True"
    /\ Op1.ret.allowed = "True"

\* C26: a check_hierarchy in mode "first_match" runs its checks one at a
\* time in list order whatever optimize is: a check is made only after every
\* earlier one returned false, never through the gather; it returns allowed
\* with the relation of the first true check as first_match, and not allowed
\* with no first_match if no check is true.
C26_FirstMatch ==
    (Op1.kind = "check_hierarchy" /\ Op1.mode = "first_match") =>
        /\ \A i \in DOMAIN Op1.child : Op1.child[i] \in {"new", "calling", "done"}
        /\ Cardinality({i \in DOMAIN Op1.child : Op1.child[i] = "calling"}) <= 1
        /\ \A k \in DOMAIN Op1.order : Op1.order[k] = k
        /\ \A i \in DOMAIN Op1.child :
              Op1.child[i] # "new" => \A j \in 1..(i - 1) : Truth(j) = "False"
        /\ Returned(Op1) =>
              LET passing == {i \in DOMAIN Op1.items : Truth(i) = "True"}
              IN  IF passing # {}
                  THEN LET k == CHOOSE i \in passing : \A j \in passing : i <= j
                       IN  /\ Op1.ret.allowed = "True"
                           /\ Op1.ret.first_match = Rel(Op1.items[k])
                           /\ \A j \in (k + 1)..Len(Op1.items) : Op1.child[j] = "new"
                  ELSE /\ Op1.ret.allowed = "False"
                       /\ Op1.ret.first_match = "none"

\* A first_match with optimize set that matched at its second check of
\* three, the third one true as well.
C26_Witness ==
    /\ Op1.kind = "check_hierarchy"
    /\ Op1.mode = "first_match"
    /\ Op1.optimize
    /\ Returned(Op1)
    /\ Len(Op1.items) = 3
    /\ Truth(1) = "False"
    /\ Truth(2) = "True"
    /\ Truth(3) = "True"
    /\ Op1.ret.first_match = Rel(Op1.items[2])
    /\ Op1.child[3] = "new"

\* A first_match with no true check.
C26_WitnessNoMatch ==
    /\ Op1.kind = "check_hierarchy"
    /\ Op1.mode = "first_match"
    /\ Returned(Op1)
    /\ Len(Op1.items) = 2
    /\ Op1.ret.allowed = "False"

\* C27: check_relations returns the map of each requested relation to the
\* result of its own check, the list filter returns the resources whose own
\* check was true in input order, in whatever order the checks complete.
C27_OutputMatchesInput ==
    /\ (Op1.kind = "check_relations" /\ Returned(Op1)) =>
          Op1.ret.map = {<<Op1.items[i], Truth(i)>> : i \in DOMAIN Op1.items}
    /\ (Op1.kind = "filter" /\ Returned(Op1)) =>
          Op1.ret.list = SelectSeq(Op1.items, LAMBDA x : fan.policy[x] = "True")

\* A list filter of three resources, the first and the last authorized,
\* whose first check completed last.
C27_Witness ==
    /\ Op1.kind = "filter"
    /\ Returned(Op1)
    /\ Len(Op1.items) = 3
    /\ Op1.order = <<2, 3, 1>>
    /\ Op1.ret.list = <<Op1.items[1], Op1.items[3]>>

\* A check_relations of three relations with both results, completed out of
\* order.
C27_WitnessRelations ==
    /\ Op1.kind = "check_relations"
    /\ Returned(Op1)
    /\ Len(Op1.items) = 3
    /\ OutOfOrder(Op1)
    /\ Truth(1) # Truth(2)
    /\ Cardinality(Op1.ret.map) = 3

\* The checks in flight, of every request.
InFlight ==
    {<<c, i>> \in Callers \X (1..MaxChecks) :
        i \in DOMAIN fan.ops[c].child /\ fan.ops[c].child[i] \in {"inflight", "calling"}}

\* Every operation has ended and every gathered check with it.
FanComplete ==
    \A c \in Callers :
        /\ fan.ops[c].pc = "done"
        /\ Gathers(fan.ops[c]) =>
              \A i \in DOMAIN fan.ops[c].child : fan.ops[c].child[i] = "done"

C28_WitnessComplete ==
    /\ FanComplete
    /\ Op1.exc
    /\ Len(Op1.items) = 3
    /\ Op1.order[1] = 2
    /\ Truth(2) = "raise"

\* C29: the resource is fetched before any check; a fetcher returning None
\* ends in 404 with no check made; a found resource whose check is false
\* ends in 403; when the check is true the dependency returns the resource
\* that was fetched.
C29_FetchThenAuthorize ==
    /\ (rg.trace # << >>) => rg.trace[1] = "fetch"
    /\ (rg.pc = "done" /\ ~rg.fetcher_raises) =>
          /\ rg.fetched = NoResource =>
                (rg.status = 404 /\ rg.trace = <<"fetch">> /\ rg.returned = NoResource)
          /\ (rg.fetched # NoResource /\ rg.decision = "False") =>
                (rg.status = 403 /\ rg.returned = NoResource)
          /\ (rg.fetched # NoResource /\ rg.decision = "True") =>
                (rg.status = 0 /\ ~rg.exc /\ rg.returned = rg.fetched)
          /\ rg.returned # NoResource => rg.decision = "True"

\* A fetcher returning None although the check would be true: 404.
C29_Witness ==
    /\ rg.pc = "done"
    /\ rg.fetched = NoResource
    /\ rg.decision = "True"
    /\ rg.status = 404

\* A found resource refused, and a falsy resource returned.
C29_WitnessDenied ==
    /\ rg.pc = "done"
    /\ rg.fetched = "doc1"
    /\ rg.status = 403

C29_WitnessReturned ==
    /\ rg.pc = "done"
    /\ rg.fetched = "empty"
    /\ rg.returned = "empty"

\* The pattern without the slashes at its ends, and its segments: the
\* stretches between two slashes (or an end) that hold no slash.
Core(p) ==
    LET keep == {i \in DOMAIN p : p[i] # "/"}
    IN  IF keep = {} THEN << >>
        ELSE LET lo == CHOOSE i \in keep : \A j \in keep : i <= j
                 hi == CHOOSE i \in keep : \A j \in keep : j <= i
             IN  SubSeq(p, lo, hi)

\* The bounds <<from, to>> of the segments of a stripped pattern, from > to
\* for an empty segment between two slashes.
SegmentBounds(c) ==
    LET cuts == {0, Len(c) + 1} \cup {i \in DOMAIN c : c[i] = "/"}
    IN  {<<a + 1, b - 1>> : <<a, b>> \in
            {x \in cuts \X cuts : x[1] < x[2] /\ \A k \in cuts : ~(x[1] < k /\ k < x[2])}}

\* A segment as it is said to be emitted: {name} as __name, any other as it
\* is.
SaidEmit(seg) ==
    IF Len(seg) >= 2 /\ seg[1] = "{" /\ seg[Len(seg)] = "}"
    THEN <<"_", "_">> \o SubSeq(seg, 2, Len(seg) - 1)
    ELSE seg

\* The emitted segments of bounds bs, in order, each preceded by a dot.
RECURSIVE SaidJoin(_, _)
SaidJoin(c, bs) ==
    IF bs = {} THEN << >>
    ELSE LET b == CHOOSE x \in bs : \A y \in bs : x[1] <= y[1]
         IN  <<".">> \o SaidEmit(SubSeq(c, b[1], b[2])) \o SaidJoin(c, bs \ {b})

\* C30 as stated: the suffix is empty for "/" and "", otherwise "." followed
\* by the "."-joined segments of the stripped pattern, with {name} as __name.
SaidSuffix(p) ==
    IF p = << >> \/ p = <<"/">> THEN << >>
    ELSE SaidJoin(Core(p), SegmentBounds(Core(p)))

\* C30 (as stated): every result is root.method followed by the suffix made
\* of all the segments of the stripped pattern.
C30_PolicyPath ==
    \A k \in DOMAIN pp.results :
        pp.results[k] = <<pp.root, ".", pp.method>> \o SaidSuffix(pp.path)

\* C30 (amended): every result is root.method followed by the suffix made of
\* the non-empty segments of the stripped pattern, each preceded by a dot,
\* which is empty when the pattern has no non-empty segment; and two calls
\* give the same result.
C30_PolicyPathNonEmptySegments ==
    \A k \in DOMAIN pp.results :
        LET c == Core(pp.path)
        IN  pp.results[k] = <<pp.root, ".", pp.method>>
                            \o SaidJoin(c, {b \in SegmentBounds(c) : b[1] <= b[2]})

\* A pattern with a parameter between literal segments, resolved twice.
C30_Witness ==
    /\ pp.path = <<"a", "/", "{", "a", "}">>
    /\ Len(pp.results) = 2
    /\ pp.results[2] = <<pp.root, ".", pp.method, ".", "a", ".", "_", "_", "a">>

\* A pattern with an empty segment inside, and one made of slashes only.
C30_WitnessEmptySegment ==
    /\ pp.path = <<"/", "a", "/", "/", "a">>
    /\ Len(pp.results) = 1
    /\ pp.results[1] = <<pp.root, ".", pp.method, ".", "a", ".", "a">>

C30_WitnessSlashes ==
    /\ pp.path = <<"/", "/">>
    /\ Len(pp.results) = 1
    /\ pp.results[1] = <<pp.root, ".", pp.method>>

-----------------------------------------------------------------------------
(* check_decision, its client and its caches: claims C31 to C33, under     *)
(* SpecCheck                                                               *)

\* The check_decision calls that have issued their authorizer call: those in
\* flight and the one the last step completed.
Issued == {req[r] : r \in {x \in Requests : req[x].pc = "calling"}}
              \cup (IF out.pc = "done" /\ out.calls = 1 THEN {out} ELSE {})

\* C31: with a connection pool configured, the client of an authorizer call
\* comes from one acquire on the pool and none is constructed; without a
\* pool, one client is constructed for the call.
C31_ClientFromPool ==
    \A rq \in Issued :
        IF cfg.connection_pool
        THEN rq.acquired = 1 /\ rq.constructed = 0
        ELSE rq.acquired = 0 /\ rq.constructed = 1

\* What holds instead: every authorizer call is made with a client
\* constructed for it, and the pool is never asked for a connection.
C31_ClientConstructed ==
    \A rq \in Issued : rq.acquired = 0 /\ rq.constructed = 1

\* An authorizer call in flight under a configuration with a pool.
C31_PoolUnused ==
    /\ cfg.connection_pool
    /\ \E r \in Requests : req[r].pc = "calling" /\ req[r].acquired = 0

\* The fresh entry of policy path p is present and has not expired.
FreshHeld(p) ==
    /\ cfg.decision_cache
    /\ fresh[KeyOf(p)].value # NoDecision
    /\ now <= fresh[KeyOf(p)].at

\* The step starts a check_decision call for policy path p: the call
\* completes in the step without an authorizer call, or goes out to the
\* authorizer.
Starts(p) ==
    \/ out'.pc = "done" /\ out'.calls = 0 /\ out'.path = p
    \/ \E r \in Requests :
          req[r].pc = "idle" /\ req'[r].pc = "calling" /\ req'[r].path = p

\* C32: a check_decision call that finds an unexpired fresh entry for its
\* key returns that value in the same step, without consulting
\* should_allow_request and without an authorizer call, and leaves the
\* breaker, the stale cache and the fresh cache as they were, whatever the
\* breaker's state; and only such a call is answered from the fresh cache.
C32_FreshHitReturns ==
    [][ \A p \in CheckPaths :
          Starts(p) =>
            IF FreshHeld(p)
            THEN /\ out'.pc = "done" /\ out'.path = p /\ out'.hit
                 /\ out'.ret = fresh[KeyOf(p)].value
                 /\ out'.exc = NoError
                 /\ ~out'.asked /\ ~out'.denied
                 /\ out'.calls = 0 /\ out'.succ = 0 /\ out'.fails = 0
                 /\ out'.fallbacks = 0
                 /\ cb' = cb
                 /\ stale' = stale
                 /\ fresh' = fresh
                 /\ \A r \in Requests : req'[r] = req[r]
            ELSE ~(out'.pc = "done" /\ out'.hit) ]_vars

\* A call answered from the fresh cache while the breaker is OPEN.
C32_Witness ==
    /\ out.pc = "done" /\ out.hit
    /\ cb.state = OPEN
    /\ out.ret \in Decisions

\* A call answered from the fresh cache with a deny while the breaker is
\* CLOSED and another call is at the authorizer.
C32_WitnessClosed ==
    /\ out.pc = "done" /\ out.hit /\ out.ret = "False"
    /\ cb.state = CLOSED
    /\ \E r \in Requests : req[r].pc = "calling"

\* The step completes a check_decision call whose authorizer call answered.
Answered == out'.pc = "done" /\ out'.calls = 1 /\ out'.err = NoError

\* C33: a step that completes a call whose authorizer call answered records
\* one success with a configured breaker, stores the call's result under the
\* call's key in a configured fresh cache (expiring CacheTtl later) and, with
\* a breaker, in the stale cache (stamped now), and returns it, the result
\* being the answer when that is true or false; no other step stores
\* anything in either cache: an entry changes otherwise only by being
\* removed.
C33_OnlySuccessCached ==
    [][ /\ Answered =>
              LET k == KeyOf(out'.path)
              IN  /\ out'.answer \in Decisions => out'.ret = out'.answer
                  /\ out'.ret \in Decisions /\ out'.exc = NoError
                  /\ out'.fallbacks = 0 /\ out'.fails = 0
                  /\ cfg.circuit_breaker =>
                        /\ out'.succ = 1
                        /\ cb'.failure_count = 0
                        /\ cb'.last_success_time = now
                        /\ stale'[k] = [value |-> out'.ret, at |-> now]
                  /\ cfg.decision_cache =>
                        fresh'[k] = [value |-> out'.ret, at |-> now + CacheTtl]
        /\ \A k \in Keys :
              /\ fresh'[k] # fresh[k] =>
                    \/ fresh'[k] = NoEntry
                    \/ Answered /\ k = KeyOf(out'.path) /\ fresh'[k].value = out'.ret
              /\ stale'[k] # stale[k] =>
                    \/ stale'[k] = NoEntry
                    \/ Answered /\ k = KeyOf(out'.path) /\ stale'[k].value = out'.ret
      ]_vars

\* An allow answered by the authorizer, returned and held by both caches.
C33_Witness ==
    /\ out.pc = "done" /\ out.calls = 1 /\ out.err = NoError
    /\ out.answer = "True" /\ out.ret = "True" /\ out.succ = 1
    /\ fresh[KeyOf(out.path)].value = "True"
    /\ stale[KeyOf(out.path)].value = "True"

\* A fallback allow after a failed authorizer call, with nothing cached for
\* the key.
C33_WitnessFallback ==
    /\ out.pc = "done" /\ out.err = "ConnectionError"
    /\ out.fallbacks = 1 /\ out.ret = "True"
    /\ fresh[KeyOf(out.path)] = NoEntry
    /\ stale[KeyOf(out.path)] = NoEntry

-----------------------------------------------------------------------------
(* The breaker under check_decision: claims C34 to C36 *)

\* The model's clock has stopped before the recovery timeout of an OPEN
\* breaker could elapse.
ClockEnded ==
    /\ cb.state = OPEN
    /\ now = MaxCheckTime
    /\ now - cb.open_since < cb.recovery_timeout

\* C34: under the default thresholds, whenever the breaker is OPEN it is
\* eventually CLOSED again, unless an authorizer call fails later on (or the
\* model's clock stops before the recovery timeout).
C34_DefaultsRecover ==
    [](cb.state = OPEN => <>(cb.state = CLOSED \/ out.err # NoError \/ ClockEnded))

\* What happens instead: the one probe the half-open limit admits has
\* succeeded, no call is at the authorizer, and the breaker stays HALF_OPEN
\* with one success counted and every further call refused.
C34_StuckHalfOpen ==
    /\ cb = [DefaultBreaker EXCEPT !.state = HALF_OPEN,
                                    !.success_count = 1,
                                    !.half_open_requests = 1,
                                    !.last_failure_time = cb.last_failure_time,
                                    !.last_success_time = cb.last_success_time,
                                    !.open_since = cb.open_since]
    /\ \A r \in Requests : req[r].pc = "idle"
    /\ out.pc = "done" /\ out.denied

\* From there the breaker never leaves HALF_OPEN.
C34_NeverLeaves ==
    [][ (cb.state = HALF_OPEN /\ cb.success_count = 1 /\ cb.half_open_requests = 1
            /\ \A r \in Requests : req[r].pc = "idle")
          => cb' = cb ]_vars

\* The step completes a call that should_allow_request admitted.
AdmittedDone == out'.pc = "done" /\ out'.asked /\ ~out'.denied

\* C35: a check_decision call that should_allow_request admitted has made
\* exactly one record_success or record_failure call by the time it returns
\* or raises, whatever the authorizer call did.
C35_OneOutcome ==
    [][ AdmittedDone => out'.succ + out'.fails = 1 ]_vars

\* What holds instead: an admitted call reports one success when the
\* authorizer answered, one failure when it raised an exception that
\* is_failure_exception accepts, and nothing when it raised any other.
C35_OutcomeUnlessUnclassified ==
    [][ AdmittedDone =>
          /\ out'.calls = 1
          /\ out'.err = NoError => out'.succ = 1 /\ out'.fails = 0
          /\ (out'.err # NoError /\ IsFailureException(out'.err))
                => out'.succ = 0 /\ out'.fails = 1
          /\ (out'.err # NoError /\ ~IsFailureException(out'.err))
                => out'.succ = 0 /\ out'.fails = 0 /\ out'.exc = out'.err /\ cb' = cb
      ]_vars

\* A probe admitted in HALF_OPEN raised an exception that is not classified
\* as a failure: the call raised it, and the breaker is HALF_OPEN with every
\* slot taken and no call at the authorizer.
C35_ProbeUnreported ==
    /\ out.pc = "done" /\ out.asked /\ ~out.denied
    /\ out.err = "ValueError" /\ out.exc = "ValueError"
    /\ out.succ + out.fails = 0
    /\ cb.state = HALF_OPEN
    /\ cb.half_open_requests = cb.half_open_max_requests
    /\ \A r \in Requests : req[r].pc = "idle"

\* From there no step changes the breaker (under a string fallback strategy:
\* a custom fallback callable that raises a failure exception has a failure
\* recorded for a refused call).
C35_NeverReported ==
    [][ (cb.state = HALF_OPEN /\ cb.half_open_requests = cb.half_open_max_requests
            /\ cfg.fallback # "custom"
            /\ \A r \in Requests : req[r].pc = "idle")
          => cb' = cb ]_vars

\* C36: while the breaker is HALF_OPEN, a success reported by a call that was
\* not admitted in the current half-open episode (one admitted while the
\* breaker was CLOSED, or in an earlier episode) is not counted: it leaves
\* the success count and the state as they are, so that only calls admitted
\* in the episode close the breaker.
C36_StaleSuccessNotCounted ==
    [][ (cb.state = HALF_OPEN /\ Answered /\ out'.episode # cb.open_since)
          => /\ cb'.success_count = cb.success_count
             /\ cb'.state = HALF_OPEN ]_vars

\* What holds instead: every success reported while the breaker is HALF_OPEN
\* is counted, whichever call reports it, and the one that brings the count
\* to the threshold closes the breaker.
C36_EverySuccessCounted ==
    [][ (cb.state = HALF_OPEN /\ Answered)
          => IF cb.success_count + 1 >= cb.success_threshold
             THEN cb'.state = CLOSED /\ cb'.success_count = 0
             ELSE cb'.state = HALF_OPEN /\ cb'.success_count = cb.success_count + 1
      ]_vars

\* A call admitted while the breaker was CLOSED has just reported a success
\* to a HALF_OPEN breaker, which counted it; the episode's probe is still at
\* the authorizer.
C36_StaleCounted ==
    /\ out.pc = "done" /\ out.succ = 1 /\ out.asked /\ out.episode = None
    /\ cb.state = HALF_OPEN /\ cb.success_count = 1
    /\ cb.last_success_time = now
    /\ \E r \in Requests : req[r].pc = "calling" /\ req[r].episode = cb.open_since

-----------------------------------------------------------------------------
(* The breaker's fields: claim C37, under SpecBreakers *)

\* C37: between any two method calls, a CLOSED breaker has fewer failures
\* counted than its threshold and no _open_since; an OPEN or HALF_OPEN one
\* has _open_since set; the success count is non-zero only in HALF_OPEN and
\* is then below the success threshold; and a HALF_OPEN breaker has issued at
\* least one half-open request.
C37_BreakerFields ==
    /\ cb.state = CLOSED =>
          cb.failure_count < cb.failure_threshold /\ cb.open_since = None
    /\ cb.state \in {OPEN, HALF_OPEN} => cb.open_since # None
    /\ cb.success_count # 0 =>
          cb.state = HALF_OPEN /\ cb.success_count < cb.success_threshold
    /\ cb.state = HALF_OPEN => cb.half_open_requests >= 1

\* A HALF_OPEN breaker with one success counted reopened by a failure.
C37_Witness ==
    /\ last.op = "record_failure"
    /\ cb.state = OPEN /\ cb.open_since = now
    /\ cb.success_count = 0 /\ cb.last_success_time # None
    /\ cb.failure_count > cb.failure_threshold
    /\ cb.success_threshold = 2

\* A breaker with both thresholds 1, closed again by its single probe.
C37_WitnessThresholdOne ==
    /\ cb.failure_threshold = 1 /\ cb.success_threshold = 1
    /\ last.op = "record_success"
    /\ cb.state = CLOSED /\ cb.last_failure_time # None
    /\ cb.failure_count = 0 /\ cb.open_since = None

-----------------------------------------------------------------------------
(* The pool's permits and its shutdown: claims C38 and C39, under SpecPool *)

\* C38 (as stated): while the pool is open the semaphore's free permits are
\* max_connections minus the number of busy connections.
C38_PermitsMatchBusy ==
    ~pool.closed => pool.value = pool.cfg.max_connections - Cardinality(pool.busy)

\* The accounting of an open pool: every permit that is not free belongs to
\* a busy connection or to a caller that holds it and has not resumed yet.
PermitsAccounted(p, tk) ==
    ~p.closed => p.value = p.cfg.max_connections - Cardinality(p.busy)
                              - Cardinality(Granted(tk))

\* C38 (amended): while the pool is open the free permits are max_connections
\* minus the busy connections minus the acquire calls that hold a permit and
\* have not yet marked their connection busy.  A successful acquire turns one
\* permit into one busy connection, a release of a busy connection returns
\* one, an acquire whose creation fails gives its permit back, and a release
\* of a connection that is not in the busy set changes neither the permits
\* nor the idle queue.
C38_PermitsAccounted ==
    [][ /\ PermitsAccounted(pool, task)
        /\ PermitsAccounted(pool', task')
        /\ (plast'.op = "acquire" /\ plast'.exc = NoError) =>
            /\ pool'.busy = pool.busy \cup {plast'.conn}
            /\ plast'.conn \notin pool.busy
            /\ PermitsHeld(pool', task') = PermitsHeld(pool, task) + 1
        /\ (plast'.op = "acquire" /\ plast'.exc \notin {NoError, "TimeoutError"}) =>
            /\ pool'.busy = pool.busy
            /\ pool'.connections = pool.connections
            /\ PermitsHeld(pool', task') = PermitsHeld(pool, task)
        /\ (plast'.op = "release" /\ plast'.known) =>
            /\ pool'.busy = pool.busy \ {plast'.conn}
            /\ plast'.conn \in pool.busy
            /\ PermitsHeld(pool', task') = PermitsHeld(pool, task) - 1
        /\ (plast'.op = "release" /\ ~plast'.known) =>
            /\ pool'.value = pool.value
            /\ pool'.idle = pool.idle
            /\ pool'.waiters = pool.waiters
            /\ Granted(task') = Granted(task)
            /\ pool'.busy = pool.busy
      ]_vars

\* C38 witness: on an open pool a caller has released for the second time a
\* connection that sits in the idle queue, while another caller holds a
\* permit it was handed and has not resumed.
C38_Witness ==
    /\ ~pool.closed
    /\ plast.op = "release"
    /\ ~plast.known
    /\ \E i \in 1..Len(pool.idle) : pool.idle[i] = plast.conn
    /\ Granted(task) # {}

\* C38 witness of the failed creation: an acquire that had a permit raised
\* the creation's error on an open pool whose permits are all free again.
C38_WitnessCreationFails ==
    /\ ~pool.closed
    /\ plast.op = "acquire"
    /\ plast.exc = "Exception"
    /\ pool.value = pool.cfg.max_connections

\* close() has returned.
CloseReturned(p) == p.closed /\ ~p.closing

\* The pool holds no connection.
PoolEmpty(p) == p.connections = {} /\ p.busy = {} /\ p.idle = << >>

\* C39: once close() has returned the pool holds no connection, whatever
\* acquire and release calls were in flight when it ran.
C39_ClosedPoolEmpty ==
    CloseReturned(pool) => PoolEmpty(pool)

\* C39, for the acquire and release calls that start after close() has
\* returned: the pool they find empty stays empty as long as no acquire from
\* before the close is left and initialize() is not called.
C39_EmptyWithoutInFlight ==
    [][ (CloseReturned(pool) /\ PoolEmpty(pool)
            /\ plast'.op # "initialize"
            /\ \A t \in Tasks : task[t].pc \in {"idle", "holding"})
        => PoolEmpty(pool') ]_vars

\* C39, the failing case: close() has returned and an acquire that had passed
\* its closed check before has since put a connection into the busy set.
C39_AcquireAfterClose ==
    /\ CloseReturned(pool)
    /\ plast.op = "acquire"
    /\ plast.exc = NoError
    /\ plast.conn \in pool.busy
    /\ plast.conn \in pool.connections

-----------------------------------------------------------------------------
(* The cache key and the identities: claim C40, under SpecCache            *)

\* Two lookups with the same identity, policy path and decision name.
SameSubject(l, m) ==
    /\ l.identity_value = m.identity_value
    /\ l.policy_path = m.policy_path
    /\ l.decision = m.decision

\* A colon in the identity, the policy path or the decision name.
HasColon(l) ==
    \E f \in {l.identity_value, l.policy_path, l.decision} :
        \E i \in 1..Len(f) : f[i] = ":"

\* C40: two lookups that differ in identity, policy path or decision name
\* never have the same key, so a get never answers from an entry that was
\* stored for another identity, policy path or decision name.
C40_KeysSeparateSubjects ==
    [][ /\ \A l \in GetLookups(dc), m \in SetLookups(dc) :
              ~SameSubject(l, m) => DecisionCacheKey(l) # DecisionCacheKey(m)
        /\ (dlast'.op = "get" /\ dlast'.ret # NoDecision) =>
              /\ HasEntry(dc, dlast'.lookup)
              /\ SameSubject(EntryFor(dc, dlast'.lookup).by, dlast'.lookup)
      ]_vars

\* What of C40 holds: a get answers from an entry stored for another
\* identity, policy path or decision name only if one of the two lookups
\* has a colon in one of these fields.
C40_UnlessColon ==
    [][ (dlast'.op = "get" /\ dlast'.ret # NoDecision) =>
              /\ HasEntry(dc, dlast'.lookup)
              /\ \/ SameSubject(EntryFor(dc, dlast'.lookup).by, dlast'.lookup)
                 \/ /\ HasColon(EntryFor(dc, dlast'.lookup).by)
                    /\ HasColon(dlast'.lookup)
      ]_vars

\* C40, the failing case: a get for one identity has been answered with the
\* decision that a set stored for another identity.
C40_OtherIdentityAnswered ==
    /\ dlast.op = "get"
    /\ dlast.ret # NoDecision
    /\ HasEntry(dc, dlast.lookup)
    /\ EntryFor(dc, dlast.lookup).by.identity_value # dlast.lookup.identity_value

====
